---- MODULE Spec2Model ----
(***************************************************************************)
(* CrunchyCleaner: the safety validator (isSafePath), the discovery pass   *)
(* and selection menu (handleMenu) and the cleanup executor (runCleanup).  *)
(*                                                                         *)
(* The repository holds several releases of the one program.  The model    *)
(* follows release 2.3 (src/unnamed/part_000, lines 1-797); release 2.2    *)
(* (src/cc_main.go, lines 553-1344) has the same discovery, menu and       *)
(* cleanup logic and differs in isSafePath, which there ends with a depth  *)
(* heuristic.  CC_VERSION selects which of the two validators is built in. *)
(*                                                                         *)
(* A string is a sequence of one-character strings, so that the           *)
(* conversions the code applies to paths (filepath.Clean, strings.ToLower, *)
(* strings.Trim, strings.Split, filepath.Join, filepath.Glob) are computed *)
(* character by character.                                                 *)
(***************************************************************************)
EXTENDS Integers, Sequences, FiniteSets, TLC

VARIABLES
    goos,          \* runtime.GOOS: "linux" or "windows"
    CC_VERSION,    \* "2.3" (denylist only) or "2.2" (denylist + depth heuristic)
    USERPROFILE,   \* os.Getenv("USERPROFILE")
    home,          \* os.UserHomeDir(), "" if it cannot be determined
    cwd,           \* the working directory of the process
    Flagdryrun,    \* -dry-run
    Flagversion,   \* -version
    args,          \* what flag.Parse makes of the command line
    faults,        \* paths whose removal (undel) or listing (unread) the OS refuses
    ext,           \* changes other processes have made to the filesystem so far
    links,         \* the symbolic links of the host: from names directory to
    base,          \* validator inputs: the path a spelling was derived from
    path,          \* validator inputs: the spelling handed to isSafePath
    edits,         \* validator inputs: how many respellings were applied
    verdict,       \* validator inputs: what isSafePath returned for path
    run,           \* number of the process launch (1, 2, ...)
    pc,            \* position of the main goroutine
    spin,          \* state of the spinner goroutine
    kbOpen,        \* raw keyboard mode is held (keyboard.Open without Close)
    exitCode,      \* process exit status, -1 while running
    lastKey,       \* history: the last key event or signal the process handled
    wrote,         \* history: the goroutine that wrote to the terminal in the last step
    fs,            \* the paths that exist on the filesystem
    existing,      \* handleMenu: the discovered entries
    idx,           \* handleMenu: the cursor
    cur,           \* runCleanup: loop position and loop locals
    count,         \* runCleanup: entries processed
    disk,          \* runCleanup: beforeFree, afterFree, totalCleanedMB
    out,           \* the lines logged since the screen was last cleared
    invocations,   \* history: calls of runCleanup in this launch
    visited,       \* history: indices of the entries the pass processed
    seen,          \* history: resolved paths the pass handled, with the outcome
    calls,         \* history: every os.Remove / os.RemoveAll call of the pass
    fs0,           \* history: the filesystem when runCleanup was entered
    hist           \* history: selection and filesystem at the end of each pass

inputVars == <<base, path, edits, verdict>>
envVars   == <<goos, CC_VERSION, USERPROFILE, home, cwd, Flagdryrun, Flagversion, args,
               faults, ext, links>>
passVars  == <<cur, count, visited, seen, calls, fs0>>
progVars  == <<lastKey, wrote, run, pc, spin, kbOpen, exitCode, fs, existing, idx, disk, out,
               invocations, hist, passVars>>
vars      == <<inputVars, envVars, progVars>>

----------------------------------------------------------------------------
(* Strings                                                                 *)

UpperCase == <<"A","B","C","D","E","F","G","H","I","J","K","L","M",
               "N","O","P","Q","R","S","T","U","V","W","X","Y","Z">>
LowerCase == <<"a","b","c","d","e","f","g","h","i","j","k","l","m",
               "n","o","p","q","r","s","t","u","v","w","x","y","z">>

IsUpper(c) == \E i \in 1..Len(UpperCase) : UpperCase[i] = c
IsLower(c) == \E i \in 1..Len(LowerCase) : LowerCase[i] = c
IsLetter(c) == IsUpper(c) \/ IsLower(c)

ToLowerChar(c) ==
    IF IsUpper(c) THEN LowerCase[CHOOSE i \in 1..Len(UpperCase) : UpperCase[i] = c]
    ELSE c

ToUpperChar(c) ==
    IF IsLower(c) THEN UpperCase[CHOOSE i \in 1..Len(LowerCase) : LowerCase[i] = c]
    ELSE c

\* faulty variant of strings.ToLower: the case is kept
KeepCase(s) == s

\* strings.ToLower
ToLower(s) == [i \in 1..Len(s) |-> ToLowerChar(s[i])]

\* strings.Contains, for a one-character substring
Contains(s, c) == \E i \in 1..Len(s) : s[i] = c

\* strings.HasPrefix
HasPrefix(s, pre) == Len(s) >= Len(pre) /\ SubSeq(s, 1, Len(pre)) = pre

\* strings.Trim(s, cutset) for a one-character cutset
RECURSIVE TrimLeft(_, _)
TrimLeft(s, c) == IF s # <<>> /\ Head(s) = c THEN TrimLeft(Tail(s), c) ELSE s

RECURSIVE TrimRight(_, _)
TrimRight(s, c) ==
    IF s # <<>> /\ s[Len(s)] = c THEN TrimRight(SubSeq(s, 1, Len(s) - 1), c) ELSE s

Trim(s, c) == TrimRight(TrimLeft(s, c), c)

\* len(strings.Split(s, sep)) for a one-character separator
SplitLen(s, c) == Cardinality({i \in 1..Len(s) : s[i] = c}) + 1

----------------------------------------------------------------------------
(* path/filepath                                                           *)

\* os.PathSeparator
Separator(os) == IF os = "windows" THEN "\\" ELSE "/"

\* os.IsPathSeparator
IsPathSeparator(os, c) == c = "/" \/ (os = "windows" /\ c = "\\")

\* filepath.VolumeName, drive letters only ("C:"); UNC names are not modelled
volumeNameLen(os, p) ==
    IF os = "windows" /\ Len(p) >= 2 /\ p[2] = ":" /\ IsLetter(p[1]) THEN 2 ELSE 0

\* the ".." case of Clean: drop the last element written, down to dotdot
RECURSIVE Backtrack(_, _, _, _)
Backtrack(os, buf, w, dotdot) ==
    IF w > dotdot /\ ~IsPathSeparator(os, buf[w + 1])
    THEN Backtrack(os, buf, w - 1, dotdot)
    ELSE SubSeq(buf, 1, w)

\* index one past the path element that starts at r
RECURSIVE ElementEnd(_, _, _)
ElementEnd(os, p, r) ==
    IF r <= Len(p) /\ ~IsPathSeparator(os, p[r]) THEN ElementEnd(os, p, r + 1) ELSE r

\* the loop of filepath.Clean: r reads p (from 1), buf is what was written
RECURSIVE CleanLoop(_, _, _, _, _, _)
CleanLoop(os, p, r, buf, dotdot, rooted) ==
    LET n == Len(p) IN
    IF r > n THEN buf
    ELSE IF IsPathSeparator(os, p[r])
    THEN CleanLoop(os, p, r + 1, buf, dotdot, rooted)
    ELSE IF p[r] = "." /\ (r = n \/ IsPathSeparator(os, p[r + 1]))
    THEN CleanLoop(os, p, r + 1, buf, dotdot, rooted)
    ELSE IF p[r] = "." /\ r + 1 <= n /\ p[r + 1] = "."
            /\ (r + 1 = n \/ IsPathSeparator(os, p[r + 2]))
    THEN IF Len(buf) > dotdot
         THEN CleanLoop(os, p, r + 2, Backtrack(os, buf, Len(buf) - 1, dotdot),
                        dotdot, rooted)
         ELSE IF ~rooted
         THEN LET b2 == (IF Len(buf) > 0 THEN Append(buf, Separator(os)) ELSE buf)
                        \o <<".", ".">>
              IN CleanLoop(os, p, r + 2, b2, Len(b2), rooted)
         ELSE CleanLoop(os, p, r + 2, buf, dotdot, rooted)
    ELSE LET b1 == IF (rooted /\ Len(buf) # 1) \/ (~rooted /\ Len(buf) # 0)
                   THEN Append(buf, Separator(os)) ELSE buf
             e  == ElementEnd(os, p, r)
         IN CleanLoop(os, p, e, b1 \o SubSeq(p, r, e - 1), dotdot, rooted)

\* filepath.Clean
Clean(os, original) ==
    LET volLen == volumeNameLen(os, original)
        vol    == SubSeq(original, 1, volLen)
        p      == SubSeq(original, volLen + 1, Len(original))
    IN IF p = <<>> THEN original \o <<".">>
       ELSE LET rooted == IsPathSeparator(os, p[1])
                buf == IF rooted
                       THEN CleanLoop(os, p, 2, <<Separator(os)>>, 1, TRUE)
                       ELSE CleanLoop(os, p, 1, <<>>, 0, FALSE)
            IN vol \o (IF buf = <<>> THEN <<".">> ELSE buf)

\* filepath.Join of two elements: empty elements are dropped, the rest is
\* joined by the separator and cleaned; all empty gives ""
Join(os, a, b) ==
    IF a = <<>> /\ b = <<>> THEN <<>>
    ELSE IF a = <<>> THEN Clean(os, b)
    ELSE IF b = <<>> THEN Clean(os, a)
    ELSE Clean(os, a \o <<Separator(os)>> \o b)

----------------------------------------------------------------------------
(* The safety validator                                                    *)

\* "c:\windows", "c:\windows\system32", "c:\users", "c:\program files",
\* "c:\program files (x86)", "c:\programdata"
windowsBlacklist ==
    {<<"c",":","\\","w","i","n","d","o","w","s">>,
     <<"c",":","\\","w","i","n","d","o","w","s","\\","s","y","s","t","e","m","3","2">>,
     <<"c",":","\\","u","s","e","r","s">>,
     <<"c",":","\\","p","r","o","g","r","a","m"," ","f","i","l","e","s">>,
     <<"c",":","\\","p","r","o","g","r","a","m"," ","f","i","l","e","s"," ","(","x","8","6",")">>,
     <<"c",":","\\","p","r","o","g","r","a","m","d","a","t","a">>}

\* "/etc", "/bin", "/sbin", "/lib", "/usr", "/boot", "/root", "/home", "/proc",
\* "/sys", "/dev"
unixBlacklist ==
    {<<"/","e","t","c">>,
     <<"/","b","i","n">>,
     <<"/","s","b","i","n">>,
     <<"/","l","i","b">>,
     <<"/","u","s","r">>,
     <<"/","b","o","o","t">>,
     <<"/","r","o","o","t">>,
     <<"/","h","o","m","e">>,
     <<"/","p","r","o","c">>,
     <<"/","s","y","s">>,
     <<"/","d","e","v">>}

\* len(p) <= 3 in the drive-root test
DriveRootLen == 3

\* len(parts) < 3 in the depth heuristic of release 2.2
MinDepth == 3

\* a depth heuristic that counts the separators between the parts
depthSeparators(p) == SplitLen(Trim(p, Separator(goos)), Separator(goos)) - 1

\* release 2.2 only: the number of separator-delimited parts of the cleaned path
depthOf(p) == SplitLen(Trim(p, Separator(goos)), Separator(goos))

\* isSafePath: TRUE is Safe, FALSE is Protected
isSafePath(p0) ==
    LET p      == Clean(goos, p0)
        pLower == ToLower(p)
    IN IF p = <<"/">> \/ p = <<"\\">> THEN FALSE
       ELSE IF goos = "windows"
               /\ (\/ Len(p) <= DriveRootLen /\ Contains(p, ":")
                   \/ pLower \in windowsBlacklist
                   \/ pLower = ToLower(USERPROFILE))
       THEN FALSE
       ELSE IF goos # "windows" /\ pLower \in unixBlacklist THEN FALSE
       ELSE IF CC_VERSION = "2.2" /\ depthOf(p) < MinDepth THEN FALSE
       ELSE TRUE

----------------------------------------------------------------------------
(* The filesystem the program runs on (Unix-like host)                     *)

\* /
pRoot == <<"/">>
\* /etc
pEtc == <<"/","e","t","c">>
\* /etc/passwd
pEtcPasswd == <<"/","e","t","c","/","p","a","s","s","w","d">>
\* /home
pHome == <<"/","h","o","m","e">>
\* /home/u
pHomeU == <<"/","h","o","m","e","/","u">>
\* /home/u/.cache
pDotCache == <<"/","h","o","m","e","/","u","/",".","c","a","c","h","e">>
\* /home/u/.cache/opera
pOpera == <<"/","h","o","m","e","/","u","/",".","c","a","c","h","e","/","o","p","e","r","a">>
\* /home/u/.cache/opera/Cache
pOperaCache == <<"/","h","o","m","e","/","u","/",".","c","a","c","h","e","/","o","p","e","r","a","/","C","a","c","h","e">>
\* /home/u/.cache/opera/Cache/d
pOperaCacheD == <<"/","h","o","m","e","/","u","/",".","c","a","c","h","e","/","o","p","e","r","a","/","C","a","c","h","e","/","d">>
\* /home/u/.cache/opera/Cache/d/f
pOperaCacheDF == <<"/","h","o","m","e","/","u","/",".","c","a","c","h","e","/","o","p","e","r","a","/","C","a","c","h","e","/","d","/","f">>
\* /home/u/.cache/opera/Cache/s
pOperaCacheS == <<"/","h","o","m","e","/","u","/",".","c","a","c","h","e","/","o","p","e","r","a","/","C","a","c","h","e","/","s">>
\* /tmp
pTmp == <<"/","t","m","p">>
\* /tmp/x-cache
pXCache == <<"/","t","m","p","/","x","-","c","a","c","h","e">>
\* /tmp/x-cache/a
pXCacheA == <<"/","t","m","p","/","x","-","c","a","c","h","e","/","a">>
\* /tmp/x-cache/b
pXCacheB == <<"/","t","m","p","/","x","-","c","a","c","h","e","/","b">>
\* /var
pVar == <<"/","v","a","r">>
\* /var/log
pVarLog == <<"/","v","a","r","/","l","o","g">>
\* /var/log/app.log
pAppLog == <<"/","v","a","r","/","l","o","g","/","a","p","p",".","l","o","g">>
\* /var/log/b.log: a log file that does not exist when the program is launched
pLateLog == <<"/","v","a","r","/","l","o","g","/","b",".","l","o","g">>
\* /var/log/wtmp
pWtmp == <<"/","v","a","r","/","l","o","g","/","w","t","m","p">>

\* every path of the modelled host, in the byte order sort.Strings gives
AllPaths ==
    <<pRoot, pEtc, pEtcPasswd, pHome, pHomeU, pDotCache, pOpera, pOperaCache,
      pOperaCacheD, pOperaCacheDF, pOperaCacheS, pTmp, pXCache, pXCacheA,
      pXCacheB, pVar, pVarLog, pAppLog, pLateLog, pWtmp>>

PathSet == {AllPaths[i] : i \in 1..Len(AllPaths)}

\* the paths that exist on a host with every modelled cache in place
Present == PathSet \ {pLateLog}

\* the regular files among them; every other path is a directory
RegularFiles ==
    {pEtcPasswd, pOperaCacheDF, pOperaCacheS, pXCacheA, pXCacheB, pAppLog,
     pLateLog, pWtmp}

\* os.FileInfo.IsDir
IsDir(x) == x \in PathSet \ RegularFiles

\* os.FileInfo.Size, in MB: the two files of /tmp/x-cache total 10 MB
FileSize(x) == IF x \in {pXCacheA, pXCacheB} THEN 5 ELSE 1

\* x lies below directory d
IsUnder(x, d) ==
    /\ x # d
    /\ HasPrefix(x, IF d = pRoot THEN d ELSE Append(d, "/"))

\* filepath.Base for a cleaned path: the last element (os.DirEntry.Name)
RECURSIVE LastSep(_, _)
LastSep(x, i) == IF i = 0 \/ x[i] = "/" THEN i ELSE LastSep(x, i - 1)

BaseName(x) == SubSeq(x, LastSep(x, Len(x)) + 1, Len(x))

\* x is an immediate child of directory d
IsChildOf(x, d) ==
    /\ IsUnder(x, d)
    /\ LastSep(x, Len(x)) = (IF d = pRoot THEN 1 ELSE Len(d) + 1)

Children(f, d) == {x \in f : IsChildOf(x, d)}

\* d and everything below it
Subtree(f, d) == {x \in f : x = d \/ IsUnder(x, d)}

\* the file a path names to the operating system: a relative path is taken
\* from the working directory of the process
Abs(x) == IF x # <<>> /\ x[1] = "/" THEN x ELSE cwd \o <<"/">> \o x

\* x is a symbolic link
IsLink(x) == \E l \in links : l.from = x

\* x with a symbolic link at or above it replaced by the link's target, as
\* the operating system does when it opens x
Follow(x) ==
    IF \E l \in links : l.from = x \/ IsUnder(x, l.from)
    THEN LET l == CHOOSE k \in links : k.from = x \/ IsUnder(x, k.from)
         IN l.to \o SubSeq(x, Len(l.from) + 1, Len(x))
    ELSE x

\* the key of the file named by x in the modelled filesystem
Resolve(x) == Follow(Clean(goos, Abs(x)))

\* os.Lstat / os.Stat succeed (every symbolic link has an existing target)
Exists(f, x) == Resolve(x) \in f

\* os.ReadDir fails on a directory the OS refuses to list
ReadDirFails(d) == Resolve(d) \in faults.unread

\* os.ReadDir: the names of d's entries, sorted by name
ReadDir(f, d) ==
    LET kids == SelectSeq(AllPaths, LAMBDA x : x \in f /\ IsChildOf(x, Resolve(d)))
    IN [i \in 1..Len(kids) |-> BaseName(kids[i])]

\* os.Remove of a file fails when the file is gone or the OS refuses
RemoveFails(f, x) == ~Exists(f, x) \/ Resolve(x) \in faults.undel

\* faulty variant of os.Remove: nothing is removed
Keep(f, x) == f

\* os.Remove: the filesystem afterwards
Remove(f, x) == IF RemoveFails(f, x) THEN f ELSE f \ {Resolve(x)}

\* x cannot be removed: the OS refuses x, x cannot be listed and is not
\* empty, or something below x cannot be removed
RECURSIVE Blocked(_, _)
Blocked(f, x) ==
    \/ x \in faults.undel
    \/ x \in faults.unread /\ Children(f, x) # {}
    \/ \E c \in Children(f, x) : Blocked(f, c)

\* os.RemoveAll returns an error (a path that does not exist is no error)
RemoveAllFails(f, x) == Resolve(x) \in f /\ Blocked(f, Resolve(x))

\* faulty variant of os.RemoveAll: only what has nothing below it is removed
RemoveLeaves(f, x) ==
    f \ {y \in Subtree(f, Resolve(x)) : Children(f, y) = {} /\ ~Blocked(f, y)}

\* os.RemoveAll: removes all it can of x and what is below it
RemoveAll(f, x) ==
    f \ {y \in Subtree(f, Resolve(x)) :
            /\ ~Blocked(f, y)
            /\ ~\E d \in faults.unread : d \in Subtree(f, Resolve(x)) /\ IsUnder(y, d)}

----------------------------------------------------------------------------
(* Path Resolver and Size Estimator                                        *)

\* filepath.Match for patterns whose only metacharacter is '*', which
\* matches any run of non-separator characters
RECURSIVE MatchFrom(_, _, _, _)
MatchFrom(pat, i, name, j) ==
    IF i > Len(pat) THEN j > Len(name)
    ELSE IF pat[i] = "*"
    THEN \/ MatchFrom(pat, i + 1, name, j)
         \/ j <= Len(name) /\ name[j] # "/" /\ MatchFrom(pat, i, name, j + 1)
    ELSE j <= Len(name) /\ pat[i] = name[j] /\ MatchFrom(pat, i + 1, name, j + 1)

Match(pat, name) == MatchFrom(pat, 1, name, 1)

\* filepath.hasMeta
hasMeta(pat) == Contains(pat, "*")

\* filepath.Split: the directory part, up to and including the last separator
SplitDir(pat) == SubSeq(pat, 1, LastSep(pat, Len(pat)))

\* filepath.Split: the file part, after the last separator
SplitFile(pat) == SubSeq(pat, LastSep(pat, Len(pat)) + 1, Len(pat))

\* filepath.cleanGlobPath
cleanGlobPath(d) ==
    IF d = <<>> THEN <<".">>
    ELSE IF d = <<"/">> THEN d
    ELSE SubSeq(d, 1, Len(d) - 1)

\* filepath.glob: the entries of dir whose name matches pat, sorted by name;
\* a dir that is missing, is no directory or cannot be listed gives none
globDir(f, dir, pat) ==
    IF ~Exists(f, dir) \/ ~IsDir(Resolve(dir)) \/ ReadDirFails(dir) THEN <<>>
    ELSE LET names == SelectSeq(ReadDir(f, dir), LAMBDA n : Match(pat, n))
         IN [i \in 1..Len(names) |-> Join(goos, dir, names[i])]

\* concatenation of a sequence of sequences
RECURSIVE Flatten(_)
Flatten(ss) == IF ss = <<>> THEN <<>> ELSE Head(ss) \o Flatten(Tail(ss))

\* filepath.Glob; every error gives the empty list (the callers drop it)
RECURSIVE Glob(_, _)
Glob(f, pat) ==
    IF ~hasMeta(pat) THEN (IF Exists(f, pat) THEN <<pat>> ELSE <<>>)
    ELSE LET dir  == cleanGlobPath(SplitDir(pat))
             file == SplitFile(pat)
         IN IF ~hasMeta(dir) THEN globDir(f, dir, file)
            ELSE IF dir = pat THEN <<>>
            ELSE LET ms == Glob(f, dir)
                 IN Flatten([i \in 1..Len(ms) |-> globDir(f, ms[i], file)])

\* expandHome: "~/rest" is rest below the home directory
expandHome(pat) ==
    IF HasPrefix(pat, <<"~", "/">>)
    THEN Join(goos, home, SubSeq(pat, 3, Len(pat)))
    ELSE pat

RECURSIVE SumSizes(_)
SumSizes(S) ==
    IF S = {} THEN 0
    ELSE LET x == CHOOSE y \in S : TRUE IN FileSize(x) + SumSizes(S \ {x})

\* getDirSize: the sizes of the regular files at and below every match
getDirSize(f, pat) ==
    LET ms == Glob(f, expandHome(pat))
        under == UNION {IF IsLink(ms[i]) THEN {} ELSE Subtree(f, Resolve(ms[i])) :
                           i \in 1..Len(ms)}
    IN SumSizes(under \cap RegularFiles)

----------------------------------------------------------------------------
(* Cache Catalog                                                           *)

\* "/var/log/*.log"
patLogs == <<"/","v","a","r","/","l","o","g","/","*",".","l","o","g">>
\* ".cache/opera/Cache"
relOperaCache == <<".","c","a","c","h","e","/","o","p","e","r","a","/","C","a","c","h","e">>
\* ".config/opera/Cache"
relOperaConfig == <<".","c","o","n","f","i","g","/","o","p","e","r","a","/","C","a","c","h","e">>

\* getPrograms, Unix-like branch, abridged to two of its entries ("System
\* Logs (Root)", "Opera Cache") and extended by the two fixture entries of
\* the end-to-end scenarios: "Etc" (sole pattern /etc) and "X" (sole pattern
\* /tmp/x-cache).  Every entry starts unchecked.
getPrograms ==
    << [Name |-> "Etc", Paths |-> <<pEtc>>, Checked |-> FALSE],
       [Name |-> "System Logs (Root)", Paths |-> <<patLogs>>, Checked |-> FALSE],
       [Name |-> "X", Paths |-> <<pXCache>>, Checked |-> FALSE],
       [Name |-> "Opera Cache",
        Paths |-> <<Join(goos, home, relOperaCache), Join(goos, home, relOperaConfig)>>,
        Checked |-> FALSE] >>

----------------------------------------------------------------------------
(* Bounds of the model                                                     *)

\* respellings applied to one validator input
MaxEdits == 2

\* launches of the program in one behaviour
MaxRuns == 2

\* getDiskMetrics reports a free space of 0..MaxFreeGB (GB)
MaxFreeGB == 1

\* changes other processes make to the filesystem while the program runs
MaxExternal == 1

FreeSamples == 0..MaxFreeGB

\* what the OS refuses on the modelled host: nothing, or one of these
FaultScenarios ==
    { [undel |-> {}, unread |-> {}],
      [undel |-> {pXCacheA}, unread |-> {}],
      [undel |-> {pOperaCacheDF}, unread |-> {}],
      [undel |-> {pAppLog}, unread |-> {}],
      [undel |-> {}, unread |-> {pOperaCache}] }

\* the host at the first launch: every modelled path exists, or none that a
\* catalog pattern matches
InitialFilesystems ==
    { Present, {pRoot, pHome, pHomeU, pTmp, pVar, pVarLog, pWtmp} }

----------------------------------------------------------------------------
(* The program: main, handleMenu, runCleanup, spinner, cc_exit             *)

CurIdle ==
    [phase |-> "idle", pi |-> 0, pj |-> 0, matches |-> <<>>, m |-> <<>>, entries |-> <<>>]

DiskIdle == [before |-> 0, after |-> 0, reported |-> 0]

\* the state of a process that has just been started
Fresh ==
    /\ pc = "main"
    /\ spin = "none"
    /\ kbOpen = FALSE
    /\ exitCode = -1
    /\ existing = <<>>
    /\ idx = 0
    /\ cur = CurIdle
    /\ count = 0
    /\ disk = DiskIdle
    /\ out = <<>>
    /\ invocations = 0
    /\ visited = <<>>
    /\ seen = <<>>
    /\ calls = <<>>
    /\ fs0 = {}
    /\ lastKey = "none"
    /\ wrote = "none"

\* the command lines: one that parses, one with -h, one with an undefined flag
CommandLines == {"ok", "help", "bad"}

Init ==
    /\ goos = "linux"
    /\ CC_VERSION \in {"2.2", "2.3"}
    /\ USERPROFILE = <<>>
    /\ home = pHomeU
    /\ cwd = pHomeU
    /\ Flagdryrun \in BOOLEAN
    /\ Flagversion \in BOOLEAN
    /\ args \in CommandLines
    /\ faults \in FaultScenarios
    /\ ext = 0
    /\ links = {}
    /\ base = <<>> /\ path = <<>> /\ edits = 0 /\ verdict = "none"
    /\ run = 1
    /\ fs \in InitialFilesystems
    /\ hist = <<>>
    /\ Fresh

\* os.Exit / return from main / panic: the process ends with this status
Exit(code) ==
    /\ pc' = "exited"
    /\ exitCode' = code
    /\ spin' = "none"

\* cc_exit: release the keyboard, restore the terminal, os.Exit(0)
cc_exit ==
    /\ kbOpen' = FALSE
    /\ Exit(0)

\* main: flag.Parse exits with status 2 on a command line it cannot parse
\* and with status 0 after -h; -version prints and exits; otherwise
\* handleMenu starts (screen cleared, banner, spinner goroutine started)
Main ==
    /\ pc = "main"
    /\ IF args = "bad" THEN Exit(2) /\ UNCHANGED out
       ELSE IF args = "help" \/ Flagversion
       THEN Exit(0) /\ UNCHANGED out
       ELSE pc' = "scan" /\ spin' = "spinning" /\ out' = <<>> /\ UNCHANGED exitCode
    /\ UNCHANGED <<inputVars, envVars, lastKey, run, kbOpen, fs, existing, idx, disk,
                   invocations, hist, passVars>>
    /\ wrote' = "main"

\* a discovery that wants every pattern of entry p to have a match
foundAll(f, p) == \A j \in 1..Len(p.Paths) : Glob(f, expandHome(p.Paths[j])) # <<>>

\* handleMenu, discovery: whether some pattern of entry p has a match
found(f, p) == \E j \in 1..Len(p.Paths) : Glob(f, expandHome(p.Paths[j])) # <<>>

RECURSIVE SumSeq(_)
SumSeq(q) == IF q = <<>> THEN 0 ELSE Head(q) + SumSeq(Tail(q))

\* handleMenu, discovery: totalSize of entry p
totalSize(f, p) ==
    SumSeq([j \in 1..Len(p.Paths) |->
              IF Glob(f, expandHome(p.Paths[j])) # <<>>
              THEN getDirSize(f, p.Paths[j]) ELSE 0])

\* handleMenu, discovery: the catalog entries with a match, in catalog order.
\* The code appends the formatted size to Name; here Size is a field of its
\* own and Name stays the catalog name.
discover(f) ==
    LET hit == SelectSeq(getPrograms, LAMBDA p : found(f, p))
    IN [i \in 1..Len(hit) |->
          [Name |-> hit[i].Name, Paths |-> hit[i].Paths, Checked |-> hit[i].Checked,
           Size |-> totalSize(f, hit[i])]]

Discover ==
    /\ pc = "scan"
    /\ existing' = discover(fs)
    /\ pc' = "scanStop"
    /\ UNCHANGED <<inputVars, envVars, lastKey, run, spin, kbOpen, exitCode, fs, idx, disk,
                   out, invocations, hist, passVars>>
    /\ wrote' = "none"

\* "stop <- true" of the main goroutine meets "case <-stop" of the spinner
SpinnerStop ==
    /\ pc \in {"scanStop", "passStop"}
    /\ spin = "spinning"
    /\ spin' = "stopping"
    /\ pc' = (IF pc = "scanStop" THEN "scanAck" ELSE "passAck")
    /\ UNCHANGED <<inputVars, envVars, lastKey, run, kbOpen, exitCode, fs, existing, idx,
                   disk, out, invocations, hist, passVars>>
    /\ wrote' = "spinner"

\* the line "No cache directories found on your system."
NothingFoundNotice == [k |-> "nocaches", p |-> <<>>, child |-> <<>>, entry |-> ""]

\* a handleMenu without the test "len(existing) == 0"
SpinnerAckOpens ==
    /\ pc \in {"scanAck", "passAck"}
    /\ spin = "stopping"
    /\ spin' = "none"
    /\ pc' = (IF pc = "passAck" THEN "report" ELSE "openKb")
    /\ UNCHANGED <<inputVars, envVars, lastKey, run, kbOpen, exitCode, fs, existing, idx,
                   disk, out, invocations, hist, passVars>>
    /\ wrote' = (IF out' # out THEN "main" ELSE "none")

\* a spinner that returns on stop without sending the acknowledgment
SpinnerAckNever ==
    /\ pc \in {"scanAck", "passAck"}
    /\ spin = "stopping"
    /\ spin' = "none"
    /\ UNCHANGED <<inputVars, envVars, lastKey, run, pc, kbOpen, exitCode, fs, existing, idx,
                   disk, out, invocations, hist, passVars>>
    /\ wrote' = "none"

\* "ack <- true" of the spinner meets "<-ack" of the main goroutine; the
\* spinner returns.  After discovery: nothing found (the notice is printed and
\* pause() waits), or open the keyboard.
SpinnerAck ==
    /\ pc \in {"scanAck", "passAck"}
    /\ spin = "stopping"
    /\ spin' = "none"
    /\ pc' = (IF pc = "passAck" THEN "report"
              ELSE IF Len(existing) = 0 THEN "nothing" ELSE "openKb")
    /\ out' = (IF pc = "scanAck" /\ Len(existing) = 0
               THEN Append(out, NothingFoundNotice) ELSE out)
    /\ UNCHANGED <<inputVars, envVars, lastKey, run, kbOpen, exitCode, fs, existing, idx,
                   disk, invocations, hist, passVars>>
    /\ wrote' = (IF out' # out THEN "main" ELSE "none")

\* pause() returns after "No cache directories found", then handleMenu and
\* main return
NothingFound ==
    /\ pc = "nothing"
    /\ Exit(0)
    /\ UNCHANGED <<inputVars, envVars, lastKey, run, kbOpen, fs, existing, idx, disk, out,
                   invocations, hist, passVars>>
    /\ wrote' = "none"

\* keyboard.Open: on an error the program panics; else the menu is drawn
OpenKeyboard ==
    /\ pc = "openKb"
    /\ \E ok \in BOOLEAN :
         IF ok
         THEN /\ kbOpen' = TRUE
              /\ idx' = 0
              /\ pc' = "menu"
              /\ UNCHANGED <<exitCode, spin>>
         ELSE /\ Exit(2)
              /\ UNCHANGED <<kbOpen, idx>>
    /\ UNCHANGED <<inputVars, envVars, lastKey, run, fs, existing, disk, out, invocations,
                   hist, passVars>>
    /\ wrote' = "main"

\* the names of the checked entries
CheckedNames(e) == {e[i].Name : i \in {j \in 1..Len(e) : e[j].Checked}}

\* entry i carries the check mark it had when the previous launch committed
Settled(i) == existing[i].Checked = (existing[i].Name \in hist[run - 1].sel)

\* the keys handleMenu tells apart
Keys == {"up", "down", "toggle", "all", "commit", "ctrlc", "err", "other"}

\* the keys by which the user repeats the selection of the launch before:
\* walk down the list, check what was checked then, and commit
ReplayKeys ==
    {k \in {"toggle", "down", "commit"} :
        IF k = "toggle" THEN ~Settled(idx + 1)
        ELSE IF k = "down"
        THEN Settled(idx + 1) /\ \E i \in (idx + 2)..Len(existing) : ~Settled(i)
        ELSE \A i \in 1..Len(existing) : Settled(i)}

\* The key source.  In the first launch any key may arrive at any time; in a
\* later launch the user repeats the selection of the launch before.
UserMay(key) == key \in (IF run = 1 THEN Keys ELSE ReplayKeys)

\* handleMenu, KeyArrowUp / 'w' / 'W'
KeyUp ==
    /\ pc = "menu" /\ UserMay("up")
    /\ lastKey' = "up"
    /\ idx' = (IF idx > 0 THEN idx - 1 ELSE idx)
    /\ UNCHANGED <<inputVars, envVars, run, pc, spin, kbOpen, exitCode, fs, existing,
                   disk, out, invocations, hist, passVars>>
    /\ wrote' = (IF idx' # idx THEN "main" ELSE "none")

\* a handleMenu whose move-down wraps from the last entry to the first
KeyDownWraps ==
    /\ pc = "menu" /\ UserMay("down")
    /\ lastKey' = "down"
    /\ idx' = (idx + 1) % Len(existing)
    /\ UNCHANGED <<inputVars, envVars, run, pc, spin, kbOpen, exitCode, fs, existing,
                   disk, out, invocations, hist, passVars>>
    /\ wrote' = (IF idx' # idx THEN "main" ELSE "none")

\* handleMenu, KeyArrowDown / 's' / 'S'
KeyDown ==
    /\ pc = "menu" /\ UserMay("down")
    /\ lastKey' = "down"
    /\ idx' = (IF idx < Len(existing) - 1 THEN idx + 1 ELSE idx)
    /\ UNCHANGED <<inputVars, envVars, run, pc, spin, kbOpen, exitCode, fs, existing,
                   disk, out, invocations, hist, passVars>>
    /\ wrote' = (IF idx' # idx THEN "main" ELSE "none")

\* a toggle that checks the entry whatever it was
check(programs, i) == [programs EXCEPT ![i + 1].Checked = TRUE]

\* existing[idx].Checked = !existing[idx].Checked (the slice is 0-based)
toggle(programs, i) == [programs EXCEPT ![i + 1].Checked = ~@]

\* handleMenu, ' ' / KeyEnter / KeySpace
KeyToggle ==
    /\ pc = "menu" /\ UserMay("toggle")
    /\ lastKey' = "toggle"
    /\ existing' = toggle(existing, idx)
    /\ UNCHANGED <<inputVars, envVars, run, pc, spin, kbOpen, exitCode, fs, idx,
                   disk, out, invocations, hist, passVars>>
    /\ wrote' = "main"

\* a handleMenu whose 'a' inverts every entry's flag on its own
KeyToggleAllInverts ==
    /\ pc = "menu" /\ UserMay("all")
    /\ lastKey' = "all"
    /\ existing' = [i \in 1..Len(existing) |->
                      [existing[i] EXCEPT !.Checked = ~existing[i].Checked]]
    /\ UNCHANGED <<inputVars, envVars, run, pc, spin, kbOpen, exitCode, fs, idx,
                   disk, out, invocations, hist, passVars>>
    /\ wrote' = "main"

\* handleMenu, 'a' / 'A'
KeyToggleAll ==
    /\ pc = "menu" /\ UserMay("all")
    /\ lastKey' = "all"
    /\ LET allChecked == \A i \in 1..Len(existing) : existing[i].Checked
       IN existing' = [i \in 1..Len(existing) |->
                         [existing[i] EXCEPT !.Checked = ~allChecked]]
    /\ UNCHANGED <<inputVars, envVars, run, pc, spin, kbOpen, exitCode, fs, idx,
                   disk, out, invocations, hist, passVars>>
    /\ wrote' = "main"

\* handleMenu, 'c' / 'C': clearScreen, showBanner, runCleanup(existing).
\* runCleanup up to its loop: beforeFree sampled, notices printed, spinner
\* goroutine started, count := 0.
KeyCommit ==
    /\ pc = "menu" /\ UserMay("commit")
    /\ lastKey' = "commit"
    /\ \E b \in FreeSamples : disk' = [before |-> b, after |-> 0, reported |-> 0]
    /\ invocations' = invocations + 1
    /\ out' = <<>>
    /\ spin' = "spinning"
    /\ count' = 0
    /\ cur' = [CurIdle EXCEPT !.phase = "prog", !.pi = 1]
    /\ visited' = <<>> /\ seen' = <<>> /\ calls' = <<>>
    /\ fs0' = fs
    /\ pc' = "pass"
    /\ UNCHANGED <<inputVars, envVars, run, kbOpen, exitCode, fs, existing, idx, hist>>
    /\ wrote' = "main"

\* a handleMenu whose KeyCtrlC branch fell through to the commit branch
KeyCtrlCCommits ==
    /\ pc = "menu" /\ UserMay("ctrlc")
    /\ lastKey' = "ctrlc"
    /\ \E b \in FreeSamples : disk' = [before |-> b, after |-> 0, reported |-> 0]
    /\ invocations' = invocations + 1
    /\ out' = <<>>
    /\ spin' = "spinning"
    /\ count' = 0
    /\ cur' = [CurIdle EXCEPT !.phase = "prog", !.pi = 1]
    /\ visited' = <<>> /\ seen' = <<>> /\ calls' = <<>>
    /\ fs0' = fs
    /\ pc' = "pass"
    /\ UNCHANGED <<inputVars, envVars, run, kbOpen, exitCode, fs, existing, idx, hist>>
    /\ wrote' = "main"

\* handleMenu, KeyCtrlC
KeyCtrlC ==
    /\ pc = "menu" /\ UserMay("ctrlc")
    /\ lastKey' = "ctrlc"
    /\ cc_exit
    /\ UNCHANGED <<inputVars, envVars, run, fs, existing, idx, disk, out,
                   invocations, hist, passVars>>
    /\ wrote' = "main"

\* a handleMenu that ends the process with status 1 on a key-source error
KeyErrorFails ==
    /\ pc = "menu" /\ UserMay("err")
    /\ lastKey' = "err"
    /\ kbOpen' = FALSE
    /\ Exit(1)
    /\ UNCHANGED <<inputVars, envVars, run, fs, existing, idx, disk, out,
                   invocations, hist, passVars>>
    /\ wrote' = "none"

\* handleMenu, keyboard.GetKey returns an error: break, the deferred
\* keyboard.Close runs, handleMenu and main return
KeyError ==
    /\ pc = "menu" /\ UserMay("err")
    /\ lastKey' = "err"
    /\ kbOpen' = FALSE
    /\ Exit(0)
    /\ UNCHANGED <<inputVars, envVars, run, fs, existing, idx, disk, out,
                   invocations, hist, passVars>>
    /\ wrote' = "none"

\* handleMenu, any other key: nothing is updated
KeyOther ==
    /\ pc = "menu" /\ UserMay("other")
    /\ lastKey' = "other"
    /\ UNCHANGED <<inputVars, envVars, run, pc, spin, kbOpen, exitCode, fs, existing, idx,
                   disk, out, invocations, hist, passVars>>
    /\ wrote' = "none"

----------------------------------------------------------------------------
(* runCleanup: the loop over programs, patterns, matches and children      *)

\* a logged line: its kind, the path it names, the child it names (both <<>>
\* if none), the catalog entry it names ("" if none)
Line(k, p, child, entry) == [k |-> k, p |-> p, child |-> child, entry |-> entry]

\* faulty variant of the skip: no entry is skipped, checked or not
noneSkipped(p) == FALSE

\* "if !p.Checked { continue }"
skipped(p) == ~p.Checked

\* "for _, p := range programs": past the last entry the loop ends; an
\* unchecked entry is skipped; a checked one is counted and its patterns start
PassProgram ==
    /\ pc = "pass" /\ cur.phase = "prog"
    /\ IF cur.pi > Len(existing)
       THEN /\ pc' = "passStop"
            /\ cur' = [cur EXCEPT !.phase = "end"]
            /\ UNCHANGED <<count, visited>>
       ELSE IF skipped(existing[cur.pi])
       THEN /\ cur' = [cur EXCEPT !.pi = @ + 1]
            /\ UNCHANGED <<pc, count, visited>>
       ELSE /\ count' = count + 1
            /\ visited' = Append(visited, cur.pi)
            /\ cur' = [cur EXCEPT !.phase = "pattern", !.pj = 1]
            /\ UNCHANGED pc
    /\ UNCHANGED <<inputVars, envVars, lastKey, run, spin, kbOpen, exitCode, fs, existing, idx,
                   disk, out, invocations, hist, seen, calls, fs0>>
    /\ wrote' = "none"

\* faulty variant of the loop over patterns: "Cleaned <name>" is logged only
\* for an entry of which something was removed
PassPatternCleanedIfRemoved ==
    /\ pc = "pass" /\ cur.phase = "pattern"
    /\ LET p == existing[cur.pi] IN
       IF cur.pj > Len(p.Paths)
       THEN /\ out' = (IF Flagdryrun \/ ~\E k \in DOMAIN calls : calls[k].prog = cur.pi /\ calls[k].ok
                       THEN out
                       ELSE Append(out, Line("cleaned", <<>>, <<>>, p.Name)))
            /\ cur' = [cur EXCEPT !.phase = "prog", !.pi = @ + 1]
       ELSE /\ cur' = [cur EXCEPT !.phase = "match",
                                  !.matches = Glob(fs, expandHome(p.Paths[cur.pj]))]
            /\ UNCHANGED out
    /\ UNCHANGED <<inputVars, envVars, lastKey, run, pc, spin, kbOpen, exitCode, fs, existing,
                   idx, disk, invocations, hist, count, visited, seen, calls, fs0>>
    /\ wrote' = (IF out' # out THEN "main" ELSE "none")

\* faulty variant of the loop over patterns: the pattern is resolved on the
\* filesystem as it was when the pass began
PassPatternStale ==
    /\ pc = "pass" /\ cur.phase = "pattern"
    /\ LET p == existing[cur.pi] IN
       IF cur.pj > Len(p.Paths)
       THEN /\ out' = (IF Flagdryrun THEN out
                       ELSE Append(out, Line("cleaned", <<>>, <<>>, p.Name)))
            /\ cur' = [cur EXCEPT !.phase = "prog", !.pi = @ + 1]
       ELSE /\ cur' = [cur EXCEPT !.phase = "match",
                                  !.matches = Glob(fs0, expandHome(p.Paths[cur.pj]))]
            /\ UNCHANGED out
    /\ UNCHANGED <<inputVars, envVars, lastKey, run, pc, spin, kbOpen, exitCode, fs, existing,
                   idx, disk, invocations, hist, count, visited, seen, calls, fs0>>
    /\ wrote' = (IF out' # out THEN "main" ELSE "none")

\* "for _, path := range p.Paths": the pattern is resolved anew; past the
\* last pattern "Cleaned <name>" is logged unless this is a dry run
PassPattern ==
    /\ pc = "pass" /\ cur.phase = "pattern"
    /\ LET p == existing[cur.pi] IN
       IF cur.pj > Len(p.Paths)
       THEN /\ out' = (IF Flagdryrun THEN out
                       ELSE Append(out, Line("cleaned", <<>>, <<>>, p.Name)))
            /\ cur' = [cur EXCEPT !.phase = "prog", !.pi = @ + 1]
       ELSE /\ cur' = [cur EXCEPT !.phase = "match",
                                  !.matches = Glob(fs, expandHome(p.Paths[cur.pj]))]
            /\ UNCHANGED out
    /\ UNCHANGED <<inputVars, envVars, lastKey, run, pc, spin, kbOpen, exitCode, fs, existing,
                   idx, disk, invocations, hist, count, visited, seen, calls, fs0>>
    /\ wrote' = (IF out' # out THEN "main" ELSE "none")

\* faulty variant of the outcome: the validator is not asked
VerdictUnvalidated(f, m) ==
    IF Flagdryrun THEN "would"
    ELSE IF ~Exists(f, m) THEN "gone"
    ELSE IF ~IsDir(Resolve(m)) THEN "file"
    ELSE IF ReadDirFails(m) THEN "unreadable"
    ELSE "dir"

\* the outcome of one resolved path m, in the order the code tests
Verdict(f, m) ==
    IF Flagdryrun THEN "would"
    ELSE IF ~isSafePath(m) THEN "unsafe"
    ELSE IF ~Exists(f, m) THEN "gone"
    ELSE IF ~IsDir(Resolve(m)) THEN "file"
    ELSE IF ReadDirFails(m) THEN "unreadable"
    ELSE "dir"

\* "for _, m := range matches": one resolved path
PassMatch ==
    /\ pc = "pass" /\ cur.phase = "match"
    /\ IF cur.matches = <<>>
       THEN /\ cur' = [cur EXCEPT !.phase = "pattern", !.pj = @ + 1]
            /\ UNCHANGED <<fs, out, seen, calls>>
       ELSE LET m == Head(cur.matches)
                v == Verdict(fs, m)
            IN /\ seen' = Append(seen, [m |-> m, prog |-> cur.pi, verdict |-> v])
               /\ cur' = IF v = "dir"
                         THEN [cur EXCEPT !.phase = "child", !.matches = Tail(@),
                                          !.m = m, !.entries = ReadDir(fs, m)]
                         ELSE [cur EXCEPT !.matches = Tail(@)]
               /\ fs' = (IF v = "file" THEN Remove(fs, m) ELSE fs)
               /\ calls' = IF v = "file"
                           THEN Append(calls, [op |-> "Remove", target |-> m, via |-> m,
                                               prog |-> cur.pi, ok |-> ~RemoveFails(fs, m)])
                           ELSE calls
               /\ out' = IF v = "would" THEN Append(out, Line("would", m, <<>>, ""))
                         ELSE IF v = "unsafe" THEN Append(out, Line("unsafe", m, <<>>, ""))
                         ELSE IF v = "file" /\ RemoveFails(fs, m)
                         THEN Append(out, Line("nofile", m, <<>>, ""))
                         ELSE IF v = "unreadable" THEN Append(out, Line("nodir", m, <<>>, ""))
                         ELSE out
    /\ UNCHANGED <<inputVars, envVars, lastKey, run, pc, spin, kbOpen, exitCode, existing, idx,
                   disk, invocations, hist, count, visited, fs0>>
    /\ wrote' = (IF out' # out THEN "main" ELSE "none")

\* faulty variant of the loop over children: the first failure ends the pass
PassChildStopsOnFailure ==
    /\ pc = "pass" /\ cur.phase = "child"
    /\ IF cur.entries = <<>>
       THEN /\ cur' = [cur EXCEPT !.phase = "match"]
            /\ UNCHANGED <<pc, fs, out, calls>>
       ELSE LET name == Head(cur.entries)
                fullPath == Join(goos, cur.m, name)
                failed == RemoveAllFails(fs, fullPath)
            IN /\ fs' = RemoveAll(fs, fullPath)
               /\ calls' = Append(calls, [op |-> "RemoveAll", target |-> fullPath,
                                          via |-> cur.m, prog |-> cur.pi, ok |-> ~failed])
               /\ out' = (IF failed THEN Append(out, Line("skipped", <<>>, name, "")) ELSE out)
               /\ cur' = (IF failed THEN [cur EXCEPT !.phase = "end"]
                          ELSE [cur EXCEPT !.entries = Tail(@)])
               /\ pc' = (IF failed THEN "passStop" ELSE pc)
    /\ UNCHANGED <<inputVars, envVars, lastKey, run, spin, kbOpen, exitCode, existing, idx,
                   disk, invocations, hist, count, visited, seen, fs0>>
    /\ wrote' = (IF out' # out THEN "main" ELSE "none")

\* "for _, entry := range entries": os.RemoveAll of one child of the
\* directory m; a failure is logged with the child's name
PassChild ==
    /\ pc = "pass" /\ cur.phase = "child"
    /\ IF cur.entries = <<>>
       THEN /\ cur' = [cur EXCEPT !.phase = "match"]
            /\ UNCHANGED <<fs, out, calls>>
       ELSE LET name == Head(cur.entries)
                fullPath == Join(goos, cur.m, name)
                failed == RemoveAllFails(fs, fullPath)
            IN /\ fs' = RemoveAll(fs, fullPath)
               /\ calls' = Append(calls, [op |-> "RemoveAll", target |-> fullPath,
                                          via |-> cur.m, prog |-> cur.pi, ok |-> ~failed])
               /\ out' = (IF failed THEN Append(out, Line("skipped", <<>>, name, "")) ELSE out)
               /\ cur' = [cur EXCEPT !.entries = Tail(@)]
    /\ UNCHANGED <<inputVars, envVars, lastKey, run, pc, spin, kbOpen, exitCode, existing, idx,
                   disk, invocations, hist, count, visited, seen, fs0>>
    /\ wrote' = (IF out' # out THEN "main" ELSE "none")

\* faulty variant of totalCleanedMB: the free-space delta as sampled
freeDeltaMB(beforeFree, afterFree) == (afterFree - beforeFree) * 1024

\* totalCleanedMB: the free-space delta in MB, zero if negative or a dry run
totalCleanedMB(beforeFree, afterFree) ==
    LET d == (afterFree - beforeFree) * 1024
    IN IF d < 0 \/ Flagdryrun THEN 0 ELSE d

\* faulty variant of the report: "Nothing selected to clean." is never printed
ReportWithoutNotice ==
    /\ pc = "report"
    /\ \E a \in FreeSamples :
         disk' = [disk EXCEPT !.after = a, !.reported = totalCleanedMB(disk.before, a)]
    /\ out' = out \o <<Line("finished", <<>>, <<>>, "")>>
    /\ kbOpen' = FALSE
    /\ hist' = Append(hist, [sel |-> CheckedNames(existing), fs |-> fs])
    /\ pc' = "waitEnter"
    /\ UNCHANGED <<inputVars, envVars, lastKey, run, spin, exitCode, fs, existing, idx,
                   invocations, passVars>>
    /\ wrote' = "main"

\* runCleanup after the spinner has acknowledged: the finished line, "Nothing
\* selected to clean." if count is 0, afterFree sampled, the space-reclaimed
\* value printed, keyboard.Close(), then the program waits for ENTER
Report ==
    /\ pc = "report"
    /\ \E a \in FreeSamples :
         disk' = [disk EXCEPT !.after = a, !.reported = totalCleanedMB(disk.before, a)]
    /\ out' = out \o <<Line("finished", <<>>, <<>>, "")>>
                  \o (IF count = 0 THEN <<Line("nothing", <<>>, <<>>, "")>> ELSE <<>>)
    /\ kbOpen' = FALSE
    /\ hist' = Append(hist, [sel |-> CheckedNames(existing), fs |-> fs])
    /\ pc' = "waitEnter"
    /\ UNCHANGED <<inputVars, envVars, lastKey, run, spin, exitCode, fs, existing, idx,
                   invocations, passVars>>
    /\ wrote' = "main"

\* faulty variant of the acknowledgement: runCleanup returns to the menu loop
AcknowledgeReturns ==
    /\ pc = "waitEnter"
    /\ pc' = "menu"
    /\ UNCHANGED <<inputVars, envVars, lastKey, run, spin, kbOpen, exitCode, fs, existing, idx,
                   disk, out, invocations, hist, passVars>>
    /\ wrote' = "main"

\* runCleanup, the user acknowledges with ENTER: cc_exit
Acknowledge ==
    /\ pc = "waitEnter"
    /\ cc_exit
    /\ UNCHANGED <<inputVars, envVars, lastKey, run, fs, existing, idx, disk, out,
                   invocations, hist, passVars>>
    /\ wrote' = "main"

\* a signal handler that ends the process without cc_exit
SignalKills ==
    /\ pc # "exited"
    /\ lastKey' = "signal"
    /\ Exit(0)
    /\ UNCHANGED <<inputVars, envVars, run, kbOpen, fs, existing, idx, disk, out,
                   invocations, hist, passVars>>
    /\ wrote' = "signal"

\* main, the signal goroutine: os.Interrupt or SIGTERM arrives, cc_exit
Signal ==
    /\ pc # "exited"
    /\ lastKey' = "signal"
    /\ cc_exit
    /\ UNCHANGED <<inputVars, envVars, run, fs, existing, idx, disk, out,
                   invocations, hist, passVars>>
    /\ wrote' = "signal"

\* the program is started again on the filesystem the last launch left, with
\* the same flags, after a launch that completed its cleanup pass
Relaunch ==
    /\ pc = "exited" /\ run < MaxRuns /\ Len(hist) = run
    /\ run' = run + 1
    /\ pc' = "main" /\ spin' = "none" /\ kbOpen' = FALSE /\ exitCode' = -1
    /\ existing' = <<>> /\ idx' = 0 /\ cur' = CurIdle /\ count' = 0
    /\ disk' = DiskIdle /\ out' = <<>> /\ invocations' = 0
    /\ visited' = <<>> /\ seen' = <<>> /\ calls' = <<>> /\ fs0' = {}
    /\ lastKey' = "none"
    /\ UNCHANGED <<inputVars, envVars, fs, hist>>
    /\ wrote' = "none"

Next ==
    \/ Main \/ Discover \/ SpinnerStop \/ SpinnerAck \/ NothingFound \/ OpenKeyboard
    \/ KeyUp \/ KeyDown \/ KeyToggle \/ KeyToggleAll \/ KeyCommit
    \/ KeyCtrlC \/ KeyError \/ KeyOther
    \/ PassProgram \/ PassPattern \/ PassMatch \/ PassChild
    \/ Report \/ Acknowledge \/ Signal \/ Relaunch

Spec == Init /\ [][Next]_vars

\* the program started where os.UserHomeDir() fails (HOME is not set): the
\* error is dropped and home is the empty string; the working directory is
\* the directory the user's caches lie in
InitNoHome ==
    /\ goos = "linux"
    /\ CC_VERSION \in {"2.2", "2.3"}
    /\ USERPROFILE = <<>>
    /\ home = <<>>
    /\ cwd = pHomeU
    /\ Flagdryrun \in BOOLEAN
    /\ Flagversion \in BOOLEAN
    /\ args \in CommandLines
    /\ faults \in FaultScenarios
    /\ ext = 0
    /\ links = {}
    /\ base = <<>> /\ path = <<>> /\ edits = 0 /\ verdict = "none"
    /\ run = 1
    /\ fs \in InitialFilesystems
    /\ hist = <<>>
    /\ Fresh

SpecNoHome == InitNoHome /\ [][Next]_vars

----------------------------------------------------------------------------
(* The spinner goroutine and the terminal                                  *)

\* a spinner that goes on drawing frames after its acknowledgment
SpinnerFrameLate ==
    /\ pc \in {"scan", "scanStop", "pass", "passStop", "nothing", "openKb", "report"}
    /\ spin \in {"spinning", "none"}
    /\ wrote' = "spinner"
    /\ UNCHANGED <<inputVars, envVars, lastKey, run, pc, spin, kbOpen, exitCode, fs,
                   existing, idx, disk, out, invocations, hist, passVars>>

\* spinner, the default branch of its select: one frame is drawn on the
\* terminal, then the goroutine sleeps and selects again
SpinnerFrame ==
    /\ pc # "exited" /\ spin = "spinning"
    /\ wrote' = "spinner"
    /\ UNCHANGED <<inputVars, envVars, lastKey, run, pc, spin, kbOpen, exitCode, fs,
                   existing, idx, disk, out, invocations, hist, passVars>>

\* the program on a host with caches, the command line parsed, no refusal
\* of the OS
InitSpin ==
    /\ goos = "linux"
    /\ CC_VERSION \in {"2.2", "2.3"}
    /\ USERPROFILE = <<>>
    /\ home = pHomeU
    /\ cwd = pHomeU
    /\ Flagdryrun \in BOOLEAN
    /\ Flagversion = FALSE
    /\ args = "ok"
    /\ faults = [undel |-> {}, unread |-> {}]
    /\ ext = 0
    /\ links = {}
    /\ base = <<>> /\ path = <<>> /\ edits = 0 /\ verdict = "none"
    /\ run = 1
    /\ fs \in InitialFilesystems
    /\ hist = <<>>
    /\ Fresh

NextSpin == Next \/ SpinnerFrame

\* the program with the frames of the spinner.  Fairness: a send on stop that
\* main is blocked in makes the receive case of the spinner's select ready,
\* and select takes a ready case before its default; main, once it has sent
\* stop, is in the receive on ack that the spinner's send meets.
SpecSpin ==
    /\ InitSpin /\ [][NextSpin]_vars
    /\ WF_vars(SpinnerStop) /\ WF_vars(SpinnerAck)

----------------------------------------------------------------------------
(* Other processes: the filesystem changes while the program runs          *)

\* the log files another process creates or removes
Volatile == {pAppLog, pLateLog}

\* another process removes a file after discovery: while the menu waits for a
\* key, or between two steps of the pass (between filepath.Glob and os.Stat)
Vanishes ==
    /\ pc \in {"menu", "pass"} /\ ext < MaxExternal
    /\ \E x \in Volatile \cap fs : fs' = fs \ {x}
    /\ ext' = ext + 1
    /\ wrote' = "none"
    /\ UNCHANGED <<inputVars, goos, CC_VERSION, USERPROFILE, home, cwd, Flagdryrun,
                   Flagversion, args, faults, links, lastKey, run, pc, spin, kbOpen, exitCode,
                   existing, idx, disk, out, invocations, hist, passVars>>

\* another process creates a file after discovery
Appears ==
    /\ pc \in {"menu", "pass"} /\ ext < MaxExternal
    /\ \E x \in Volatile \ fs : pVarLog \in fs /\ fs' = fs \cup {x}
    /\ ext' = ext + 1
    /\ wrote' = "none"
    /\ UNCHANGED <<inputVars, goos, CC_VERSION, USERPROFILE, home, cwd, Flagdryrun,
                   Flagversion, args, faults, links, lastKey, run, pc, spin, kbOpen, exitCode,
                   existing, idx, disk, out, invocations, hist, passVars>>

\* a Linux host and a well-formed command line
InitEnv ==
    /\ goos = "linux"
    /\ CC_VERSION \in {"2.2", "2.3"}
    /\ USERPROFILE = <<>>
    /\ home = pHomeU
    /\ cwd = pHomeU
    /\ Flagdryrun \in BOOLEAN
    /\ Flagversion = FALSE
    /\ args = "ok"
    /\ faults \in {[undel |-> {}, unread |-> {}], [undel |-> {pXCacheA}, unread |-> {}]}
    /\ ext = 0
    /\ links = {}
    /\ base = <<>> /\ path = <<>> /\ edits = 0 /\ verdict = "none"
    /\ run = 1
    /\ fs \in InitialFilesystems
    /\ hist = <<>>
    /\ Fresh

NextEnv == Next \/ Vanishes \/ Appears

SpecEnv == InitEnv /\ [][NextEnv]_vars

----------------------------------------------------------------------------
(* A host with a symbolic link where a cache directory is expected         *)

\* a cache location that is a symbolic link to /etc
LinkedCaches == {pXCache, pOperaCache}

\* a Linux host on which one cache location is a symbolic link to /etc, or a
\* host without caches and without links
InitLink ==
    /\ goos = "linux"
    /\ CC_VERSION \in {"2.2", "2.3"}
    /\ USERPROFILE = <<>>
    /\ home = pHomeU
    /\ cwd = pHomeU
    /\ Flagdryrun \in BOOLEAN
    /\ Flagversion = FALSE
    /\ args = "ok"
    /\ faults = [undel |-> {}, unread |-> {}]
    /\ ext = 0
    /\ \/ \E c \in LinkedCaches :
             /\ links = {[from |-> c, to |-> pEtc]}
             /\ fs = Present \ Subtree(Present, c)
       \/ /\ links = {}
          /\ fs = {pRoot, pHome, pHomeU, pTmp, pVar, pVarLog, pWtmp}
    /\ base = <<>> /\ path = <<>> /\ edits = 0 /\ verdict = "none"
    /\ run = 1
    /\ hist = <<>>
    /\ Fresh

SpecLink == InitLink /\ [][Next]_vars

----------------------------------------------------------------------------
(* The validator on its own: isSafePath applied to spellings of a path     *)

\* \
wRoot == <<"\\">>
\* C:\
wDriveC == <<"C",":","\\">>
\* C:
wDriveOnly == <<"C",":">>
\* D:\
wDriveD == <<"D",":","\\">>
\* C:\Users\u
wHomeU == <<"C",":","\\","U","s","e","r","s","\\","u">>
\* C:\Temp\x
wTemp == <<"C",":","\\","T","e","m","p","\\","x">>
\* /var/home/u
pVarHomeU == <<"/","v","a","r","/","h","o","m","e","/","u">>
\* /Users/u
pUsersU == <<"/","U","s","e","r","s","/","u">>
\* C:\Users\d\u
wHomeDeep == <<"C",":","\\","U","s","e","r","s","\\","d","\\","u">>
\* /opt/x
pOptX == <<"/","o","p","t","/","x">>
\* .cache
relDotCache == <<".","c","a","c","h","e">>
\* AppData
relAppData == <<"A","p","p","D","a","t","a">>

\* runtime.GOOS values of the builds
Platforms == {"linux", "darwin", "windows"}

\* where os.UserHomeDir() may point on a platform
Homes(os) ==
    IF os = "windows" THEN {wHomeU, wHomeDeep}
    ELSE IF os = "darwin" THEN {pUsersU}
    ELSE {pHomeU, pVarHomeU}

\* the filesystem roots and bare drive roots of a platform
Roots(os) == IF os = "windows" THEN {wRoot, pRoot, wDriveC, wDriveD, wDriveOnly} ELSE {pRoot}

\* the denylist of a platform
Denylist(os) == IF os = "windows" THEN windowsBlacklist ELSE unixBlacklist

\* a directory right below the home directory h
HomeSubdir(os, h) == Join(os, h, IF os = "windows" THEN relAppData ELSE relDotCache)

\* a cache directory outside every protected location
Elsewhere(os) == IF os = "windows" THEN wTemp ELSE pXCache

\* directories one or two segments below the root that are on no denylist
Shallow(os) == IF os = "windows" THEN {} ELSE {pTmp, pVar, pOptX}

\* the paths whose spellings are handed to isSafePath
Fixtures(os, h) ==
    Roots(os) \cup Denylist(os) \cup Shallow(os) \cup {h, HomeSubdir(os, h), Elsewhere(os)}

\* q with s inserted after position i
InsertAfter(q, i, s) == SubSeq(q, 1, i) \o s \o SubSeq(q, i + 1, Len(q))

\* the positions of q's separators
SepAt(q) == {i \in 1..Len(q) : IsPathSeparator(goos, q[i])}

\* q has something after its volume name, and on Windows does not begin with
\* two separators (that would spell a UNC or device name, another path)
Spells(q) ==
    /\ Len(q) > volumeNameLen(goos, q)
    /\ ~(goos = "windows" /\ Len(q) >= 2
           /\ IsPathSeparator(goos, q[1]) /\ IsPathSeparator(goos, q[2]))

\* q is rooted: a separator follows its volume name
Rooted(q) ==
    Len(q) > volumeNameLen(goos, q) /\ IsPathSeparator(goos, q[volumeNameLen(goos, q) + 1])

\* q with a segment seg ("." or "x/..") put after one of its separators or at
\* its end
WithSegment(q, seg) ==
    {InsertAfter(q, i, seg \o <<Separator(goos)>>) : i \in SepAt(q)}
    \cup {q \o <<Separator(goos)>> \o seg}

\* "x/..", by the platform's separator
DownUp == <<"x", Separator(goos), ".", ".">>

\* one respelling was applied to the input
Respelled(q) ==
    /\ edits < MaxEdits
    /\ Spells(path) /\ Spells(q)
    /\ path' = q
    /\ edits' = edits + 1
    /\ verdict' = "none"
    /\ UNCHANGED <<base, envVars, progVars>>

\* a separator is appended
TrailingSeparator == \E q \in {Append(path, Separator(goos))} : Respelled(q)

\* one separator is doubled
DoubledSeparator == \E i \in SepAt(path) : Respelled(InsertAfter(path, i, <<Separator(goos)>>))

\* a "." segment is inserted
DotSegment == \E q \in WithSegment(path, <<".">>) : Respelled(q)

\* a segment is entered and left again by "..", or ".." is applied to the root
DotDotSegment ==
    \E q \in WithSegment(path, DownUp)
             \cup (IF Rooted(path)
                   THEN {InsertAfter(path, volumeNameLen(goos, path) + 1,
                                     <<".", ".", Separator(goos)>>)}
                   ELSE {}) :
       Respelled(q)

\* the case of one letter is changed
LetterCase ==
    \E i \in {j \in 1..Len(path) : IsLetter(path[j])} :
       Respelled([path EXCEPT ![i] = IF IsUpper(@) THEN ToLowerChar(@) ELSE ToUpperChar(@)])

\* isSafePath is called with the input
Validate ==
    /\ verdict = "none"
    /\ verdict' = (IF isSafePath(path) THEN "Safe" ELSE "Protected")
    /\ UNCHANGED <<base, path, edits, envVars, progVars>>

InitSafe ==
    /\ goos \in Platforms
    /\ CC_VERSION \in {"2.2", "2.3"}
    /\ home \in Homes(goos)
    /\ cwd = home
    /\ USERPROFILE = (IF goos = "windows" THEN home ELSE <<>>)
    /\ Flagdryrun = FALSE
    /\ Flagversion = FALSE
    /\ args = "ok"
    /\ faults = [undel |-> {}, unread |-> {}]
    /\ ext = 0
    /\ links = {}
    /\ base \in Fixtures(goos, home)
    /\ path = base
    /\ edits = 0
    /\ verdict = "none"
    /\ run = 1
    /\ fs = Present
    /\ hist = <<>>
    /\ Fresh

NextSafe ==
    \/ TrailingSeparator \/ DoubledSeparator \/ DotSegment \/ DotDotSegment
    \/ LetterCase \/ Validate

SpecSafe == InitSafe /\ [][NextSafe]_vars

\* every spelling normalises to the path it was derived from, up to case
SpellingsDenoteBase == ToLower(Clean(goos, path)) = ToLower(Clean(goos, base))

----------------------------------------------------------------------------
(* Properties of the validator (under SpecSafe)                            *)

\* C1: isSafePath returns Protected for the filesystem root, for a bare
\* Windows drive root and for every entry of the platform's denylist, in every
\* spelling of that path that differs by trailing separators, doubled
\* separators, "." / ".." segments or letter case.
C1_ProtectedInEverySpelling ==
    (verdict # "none" /\ base \in Roots(goos) \cup Denylist(goos)) => verdict = "Protected"

\* a denylist entry, respelled twice so that both the case folding and the
\* normalisation have something to undo, was validated
C1_RespelledDenylistEntry ==
    /\ verdict = "Protected"
    /\ base \in Denylist(goos)
    /\ edits >= 2
    /\ ToLower(path) # path
    /\ Clean(goos, path) # path

\* C2: isSafePath returns Protected for the user's whole home directory on
\* every platform, wherever it is located.
C2_HomeProtected ==
    (verdict # "none" /\ base = home) => verdict = "Protected"

\* C2, on Windows, where USERPROFILE is compared: the profile directory is
\* Protected in every spelling
C2_ProfileProtectedOnWindows ==
    (verdict # "none" /\ base = home /\ goos = "windows") => verdict = "Protected"

----------------------------------------------------------------------------
(* Properties of the cleanup pass (under Spec)                             *)

\* the indices of the checked entries
CheckedIdx == {i \in 1..Len(existing) : existing[i].Checked}

\* a line of this kind was logged
Logged(k, p, child) == \E i \in DOMAIN out : out[i] = Line(k, p, child, "")

\* the resolved paths of pattern j of entry i on filesystem f
Resolved(f, i, j) ==
    LET ms == Glob(f, expandHome(existing[i].Paths[j])) IN {ms[k] : k \in DOMAIN ms}

\* the loop of runCleanup has ended in this launch
PassEnded == invocations = 1 /\ cur.phase = "end"

\* every removal call of the pass succeeded and every directory could be read
NoFailure ==
    /\ \A i \in DOMAIN calls : calls[i].ok
    /\ \A i \in DOMAIN seen : seen[i].verdict # "unreadable"

\* the children loop of the directory seen[i] has ended
ChildrenDone(i) == ~(cur.phase = "child" /\ i = Len(seen))

\* every removal call was made through a resolved path that isSafePath
\* accepts, on that path or on a child of it
C3_CallsOnlyThroughSafe ==
    \A i \in DOMAIN calls :
        /\ isSafePath(calls[i].via)
        /\ \/ calls[i].target = calls[i].via
           \/ IsChildOf(Clean(goos, calls[i].target), Clean(goos, calls[i].via))

\* a Protected resolved path and all beneath it are still there
C3_ProtectedUntouched ==
    \A i \in DOMAIN seen :
        ~isSafePath(seen[i].m) => Subtree(fs0, Clean(goos, seen[i].m)) \subseteq fs

\* the pass goes on with the next resolved path after a skipped-unsafe outcome
C3_Continues ==
    [][(pc = "pass" /\ Len(seen') = Len(seen) + 1 /\ seen'[Len(seen')].verdict = "unsafe")
         => /\ pc' = "pass"
            /\ cur'.phase = "match"
            /\ cur'.matches = Tail(cur.matches)
            /\ cur'.pi = cur.pi /\ cur'.pj = cur.pj]_vars

\* C3 (as amended): a checked entry whose pattern resolves to a Protected
\* path never has that path or anything beneath it removed, and no removal call
\* is made on a resolved path or its children unless isSafePath accepts it.  In
\* a pass that is not a dry run the path is reported as skipped-unsafe and the
\* pass goes on with the next resolved path; in a dry run the validator is not
\* asked and the path is reported as one that would be emptied.
C3_ProtectedNeverRemoved ==
    /\ [](/\ C3_CallsOnlyThroughSafe
          /\ C3_ProtectedUntouched
          /\ \A i \in DOMAIN seen :
                ~isSafePath(seen[i].m) =>
                    IF Flagdryrun
                    THEN seen[i].verdict = "would" /\ Logged("would", seen[i].m, <<>>)
                    ELSE seen[i].verdict = "unsafe" /\ Logged("unsafe", seen[i].m, <<>>))
    /\ C3_Continues

\* C3 as stated: in every cleanup run, dry or not, the Protected path is
\* reported as skipped-unsafe
C3_AlwaysReportedUnsafe ==
    /\ C3_CallsOnlyThroughSafe
    /\ C3_ProtectedUntouched
    /\ \A i \in DOMAIN seen :
          ~isSafePath(seen[i].m) => Logged("unsafe", seen[i].m, <<>>)

\* the entry of /etc was checked with others; /etc was skipped as unsafe, the
\* pass went on to remove something and ended, and /etc/passwd is still there
C3_EtcSkippedPassWentOn ==
    /\ PassEnded /\ ~Flagdryrun
    /\ \E i \in DOMAIN seen :
          /\ seen[i].m = pEtc /\ seen[i].verdict = "unsafe"
          /\ \E k \in DOMAIN calls : calls[k].prog > seen[i].prog /\ calls[k].ok
    /\ pEtcPasswd \in fs

\* C4: in a dry run the filesystem stays as it was when the pass began, no
\* removal call is made, and the reported space-reclaimed value is zero
\* whatever the free-space samples are.
C4_DryRunChangesNothing ==
    (Flagdryrun /\ invocations = 1) => fs = fs0 /\ calls = <<>> /\ disk.reported = 0

\* a dry run over a non-empty selection with matches has reported, and the
\* free space sampled after it is larger than the one sampled before
C4_DryRunReported ==
    /\ Flagdryrun /\ pc = "waitEnter"
    /\ CheckedIdx # {} /\ seen # <<>>
    /\ fs0 = Present
    /\ disk.after > disk.before

\* C5: a pass processes exactly the checked entries: every removal call
\* belongs to a checked entry, whatever is gone lies at or beneath a path that a
\* pattern of a checked entry resolves to, and at the end of the pass the count
\* is the number of checked entries, whatever matched, was skipped or failed.
C5_ExactlyTheChecked ==
    invocations = 1 =>
        /\ \A i \in DOMAIN calls : calls[i].prog \in CheckedIdx
        /\ \A k \in DOMAIN visited : visited[k] \in CheckedIdx
        /\ \A x \in fs0 \ fs :
              \E i \in CheckedIdx : \E j \in DOMAIN existing[i].Paths :
                 \E m \in Resolved(fs0, i, j) : x \in Subtree(fs0, Clean(goos, m))
        /\ cur.phase = "end" => count = Cardinality(CheckedIdx)

\* two of four discovered entries were checked; the pass ended after removing
\* something and failing on something, and the files of the unchecked entry X
\* are still there
C5_TwoOfFourProcessed ==
    /\ PassEnded /\ ~Flagdryrun
    /\ Len(existing) = 4 /\ Cardinality(CheckedIdx) = 2 /\ count = 2
    /\ \E i \in DOMAIN calls : calls[i].ok
    /\ \E i \in DOMAIN calls : ~calls[i].ok
    /\ "X" \notin CheckedNames(existing)
    /\ {pXCacheA, pXCacheB} \subseteq fs

\* C6: in a pass that is not a dry run a Safe resolved path that is a
\* regular file is removed itself; for one that is a directory each immediate
\* child is removed recursively and the directory itself is never the target of
\* a removal, so after a pass without failures the directory exists and is
\* empty.
C6_ContentsNotDirectory ==
    /\ \A i \in DOMAIN calls :
          IF calls[i].op = "Remove"
          THEN /\ calls[i].target = calls[i].via
               /\ ~IsDir(Clean(goos, calls[i].via))
          ELSE /\ IsDir(Clean(goos, calls[i].via))
               /\ IsChildOf(Clean(goos, calls[i].target), Clean(goos, calls[i].via))
    /\ \A i \in DOMAIN seen :
          /\ seen[i].verdict \in {"file", "dir"} => isSafePath(seen[i].m) /\ ~Flagdryrun
          /\ seen[i].verdict = "file" =>
                \E k \in DOMAIN calls :
                   calls[k].op = "Remove" /\ calls[k].target = seen[i].m
          /\ (seen[i].verdict = "dir" /\ ChildrenDone(i)) =>
                \A x \in Children(fs0, Clean(goos, seen[i].m)) :
                   \E k \in DOMAIN calls :
                      /\ calls[k].op = "RemoveAll"
                      /\ calls[k].target = x /\ calls[k].via = seen[i].m
          /\ (PassEnded /\ NoFailure /\ seen[i].verdict = "file") =>
                Clean(goos, seen[i].m) \notin fs
          /\ (PassEnded /\ NoFailure /\ seen[i].verdict = "dir") =>
                Subtree(fs, Clean(goos, seen[i].m)) = {Clean(goos, seen[i].m)}

\* a pass without failures ended in which a file was removed and a directory
\* with a file and a subdirectory in it was emptied
C6_FileGoneDirectoryEmptied ==
    /\ PassEnded /\ NoFailure /\ ~Flagdryrun
    /\ fs0 = Present
    /\ \E i \in DOMAIN seen : seen[i].m = pAppLog /\ seen[i].verdict = "file"
    /\ \E i \in DOMAIN seen : seen[i].m = pOperaCache /\ seen[i].verdict = "dir"
    /\ pAppLog \notin fs
    /\ pOperaCache \in fs /\ pOperaCacheDF \notin fs

\* the end-to-end scenario: only X is checked, /tmp/x-cache holds its two
\* files when the pass begins, the pass is no dry run, it has ended, and the OS
\* refused no removal in /tmp/x-cache
XScenario ==
    /\ PassEnded /\ ~Flagdryrun
    /\ CheckedNames(existing) = {"X"}
    /\ fs0 = Present
    /\ faults.undel \cap {pXCacheA, pXCacheB} = {}

\* C7: after a cleanup that is no dry run with X (sole pattern /tmp/x-cache,
\* a directory holding two files) checked, /tmp/x-cache exists and is empty and
\* the count of processed entries is 1.
C7_XCacheEmptied ==
    XScenario => /\ pXCache \in fs
                 /\ Subtree(fs, pXCache) = {pXCache}
                 /\ count = 1

\* C7 under the validator of release 2.3 (denylist only)
C7_XCacheEmptiedWithoutDepthRule ==
    (XScenario /\ CC_VERSION = "2.3") => /\ pXCache \in fs
                                         /\ Subtree(fs, pXCache) = {pXCache}
                                         /\ count = 1

\* C7 under the validator of release 2.2 (depth heuristic): /tmp/x-cache has
\* two parts, is skipped as unsafe and keeps its files
C7_XCacheKeptByDepthRule ==
    (XScenario /\ CC_VERSION = "2.2") => /\ {pXCache, pXCacheA, pXCacheB} \subseteq fs
                                         /\ Logged("unsafe", pXCache, <<>>)
                                         /\ count = 1

\* the loop of runCleanup stands at an entry or just past the last one and,
\* within an entry, at a pattern or just past the last one: the positions in
\* which PassProgram, PassPattern, PassMatch or PassChild can take a step
LoopPositioned ==
    /\ cur.phase \in {"prog", "pattern", "match", "child"}
    /\ cur.pi \in 1..(Len(existing) + 1)
    /\ cur.phase # "prog" =>
          /\ cur.pi <= Len(existing)
          /\ cur.pj \in 1..(Len(existing[cur.pi].Paths) + 1)
    /\ cur.phase \in {"match", "child"} => cur.pj <= Len(existing[cur.pi].Paths)

\* larger than any number of patterns of an entry or of matches of a pattern
Top == Len(AllPaths) + Len(getPrograms) + 2

\* what is left of the loop: entries, patterns of the entry, matches of the
\* pattern, children of the match
passRank(c, programs) ==
    IF c.phase \notin {"prog", "pattern", "match", "child"} THEN <<0, 0, 0, 0>>
    ELSE LET e == Len(programs) + 2 - c.pi IN
         IF c.phase = "prog" THEN <<e, Top, 0, 0>>
         ELSE LET p == Len(programs[c.pi].Paths) + 2 - c.pj IN
              IF c.phase = "pattern" THEN <<e, p, Top, 0>>
              ELSE IF c.phase = "match" THEN <<e, p, Len(c.matches), 0>>
              ELSE <<e, p, Len(c.matches), 1 + Len(c.entries)>>

\* lexicographic order on tuples of four numbers
LexLess(a, b) == \E i \in 1..4 : a[i] < b[i] /\ \A j \in 1..(i - 1) : a[j] = b[j]

\* the checked indices in increasing order
CheckedInOrder == SelectSeq([i \in 1..Len(existing) |-> i], LAMBDA i : existing[i].Checked)

\* every failure was logged; the loop is never stuck; at its end every checked
\* entry was visited once, in order, every path its patterns resolve to was
\* handled, and every child of every directory handled was given to RemoveAll
C8_Contained ==
    /\ \A i \in DOMAIN calls :
          ~calls[i].ok =>
              IF calls[i].op = "Remove" THEN Logged("nofile", calls[i].target, <<>>)
              ELSE Logged("skipped", <<>>, BaseName(calls[i].target))
    /\ \A i \in DOMAIN seen :
          seen[i].verdict = "unreadable" => Logged("nodir", seen[i].m, <<>>)
    /\ pc = "pass" => LoopPositioned
    /\ PassEnded =>
          /\ visited = CheckedInOrder
          /\ \A i \in CheckedIdx : \A j \in DOMAIN existing[i].Paths :
                \A m \in Resolved(fs0, i, j) :
                   \E k \in DOMAIN seen : seen[k].m = m /\ seen[k].prog = i
          /\ \A i \in DOMAIN seen :
                seen[i].verdict = "dir" =>
                   \A x \in Children(fs0, Clean(goos, seen[i].m)) :
                      \E k \in DOMAIN calls : calls[k].target = x

\* C8: a failure while deleting a child, reading a directory or deleting a
\* file is logged and contained: the loop goes on with the remaining children,
\* resolved paths, patterns and checked entries; every step of the loop leaves
\* strictly less of it to do, so the pass reaches its end, having visited every
\* checked entry once.
C8_FailureContained ==
    /\ []C8_Contained
    /\ [][(pc = "pass" /\ pc' # "exited") => LexLess(passRank(cur', existing'), passRank(cur, existing))]_vars

\* a pass ended in which a removal failed and later removals, of the same
\* directory and of a later entry, succeeded
C8_FailedThenWentOn ==
    /\ PassEnded /\ Len(visited) >= 2
    /\ \E i \in DOMAIN calls :
          /\ ~calls[i].ok
          /\ \E k \in DOMAIN calls : k > i /\ calls[k].ok /\ calls[k].prog = calls[i].prog
          /\ \E k \in DOMAIN calls : k > i /\ calls[k].ok /\ calls[k].prog > calls[i].prog

\* C9: cleanup is idempotent: in a launch that repeats the selection of the
\* launch before, on the filesystem that launch left, the filesystem stays as
\* that launch left it, every removal call removes nothing, and the launch
\* ends without a fatal error.
C9_SecondRunRemovesNothing ==
    run > 1 =>
        /\ fs = hist[run - 1].fs
        /\ \A i \in DOMAIN calls : ~calls[i].ok
        /\ invocations = 1 => exitCode \in {-1, 0}
        /\ Len(hist) = run => hist[run].fs = hist[run - 1].fs

\* the second launch has ended after its pass; the first launch, no dry run,
\* had emptied /tmp/x-cache and the Opera cache
C9_SecondRunEnded ==
    /\ run = 2 /\ pc = "exited" /\ Len(hist) = 2 /\ exitCode = 0
    /\ ~Flagdryrun
    /\ {"X", "Opera Cache"} \subseteq hist[1].sel
    /\ pXCacheB \notin fs /\ pOperaCacheS \notin fs
    /\ seen # <<>>

\* C10: a commit invokes runCleanup once, over the entries as they are;
\* after it has completed and the user has acknowledged, the program exits; in
\* a launch runCleanup is invoked at most once, and after the commit no move,
\* toggle, toggle-all or commit is processed.
C10_CommitOnceThenExit ==
    /\ [](/\ invocations <= 1
          /\ invocations = 1 =>
                pc \in {"pass", "passStop", "passAck", "report", "waitEnter", "exited"})
    /\ [][/\ (pc = "menu" /\ pc' = "pass") =>
                invocations = 0 /\ invocations' = 1 /\ existing' = existing
          /\ (invocations = 1 /\ run' = run) =>
                idx' = idx /\ existing' = existing /\ invocations' = 1
          /\ (pc = "waitEnter" /\ pc' # pc) => pc' = "exited" /\ exitCode' = 0]_vars

\* the program has exited with status 0 after one cleanup over a selection
\* and the user's acknowledgement, the keyboard released
C10_ExitedAfterCleanup ==
    /\ pc = "exited" /\ exitCode = 0 /\ ~kbOpen
    /\ invocations = 1 /\ Len(hist) = run
    /\ CheckedIdx # {}

----------------------------------------------------------------------------
(* C11: an interrupt while the menu is open                                *)

\* the events that interrupt the process: the Ctrl+C key read by handleMenu
\* and a termination signal delivered to main's goroutine
Interrupts == {"ctrlc", "signal"}

\* C11: an interrupt (the Ctrl+C key or a termination signal) handled while
\* the menu is open and before a commit makes the program exit with status 0
\* without invoking runCleanup: whatever is checked, no removal is called and
\* the filesystem is as it was.
C11_InterruptExitsWithoutCleanup ==
    /\ [][(pc = "menu" /\ lastKey' \in Interrupts) =>
             /\ pc' = "exited" /\ exitCode' = 0 /\ ~kbOpen'
             /\ invocations = 0 /\ invocations' = 0
             /\ calls' = <<>> /\ fs' = fs /\ existing' = existing]_vars
    /\ [](pc = "exited" /\ lastKey \in Interrupts /\ invocations = 0 =>
             /\ calls = <<>> /\ seen = <<>>
             /\ (run = 1 => fs \in InitialFilesystems)
             /\ (run > 1 => fs = hist[run - 1].fs))

\* the program exited on Ctrl+C from a menu with entries checked, before any
\* commit
C11_InterruptedWithSelection ==
    /\ pc = "exited" /\ lastKey = "ctrlc" /\ invocations = 0
    /\ CheckedIdx # {}

----------------------------------------------------------------------------
(* C12: the cursor                                                         *)

Max(a, b) == IF a >= b THEN a ELSE b
Min(a, b) == IF a <= b THEN a ELSE b

\* C12: with n entries in the menu and the cursor at i, move-up sets the
\* cursor to max(0, i-1) and move-down to min(n-1, i+1); neither changes a
\* checked flag; in every reachable menu state 0 <= i <= n-1.
C12_CursorClamped ==
    /\ [](pc = "menu" => idx >= 0 /\ idx <= Len(existing) - 1)
    /\ [][/\ (pc = "menu" /\ lastKey' = "up") =>
                idx' = Max(0, idx - 1) /\ existing' = existing /\ pc' = "menu"
          /\ (pc = "menu" /\ lastKey' = "down") =>
                idx' = Min(Len(existing) - 1, idx + 1) /\ existing' = existing
                /\ pc' = "menu"]_vars

\* the cursor was moved down onto the last of several entries, some of them
\* checked
C12_CursorAtBottom ==
    /\ pc = "menu" /\ lastKey = "down"
    /\ Len(existing) > 1 /\ idx = Len(existing) - 1
    /\ CheckedIdx # {}

----------------------------------------------------------------------------
(* C13: toggle                                                             *)

\* entries a and b differ in nothing but, possibly, the checked flag
SameButChecked(a, b) == [a EXCEPT !.Checked = b.Checked] = b

\* C13: toggle flips the checked flag of the entry under the cursor and
\* changes nothing else (no other entry, not the cursor, not the
\* filesystem); toggling the same entry twice gives back the menu as it was.
C13_ToggleFlipsOne ==
    /\ [][(pc = "menu" /\ lastKey' = "toggle") =>
             /\ Len(existing') = Len(existing)
             /\ \A j \in 1..Len(existing) :
                   /\ SameButChecked(existing'[j], existing[j])
                   /\ (existing'[j].Checked # existing[j].Checked) <=> (j = idx + 1)
             /\ idx' = idx /\ pc' = "menu" /\ fs' = fs /\ out' = out
             /\ invocations' = invocations /\ kbOpen' = kbOpen]_vars
    /\ [](pc = "menu" =>
             \A i \in 0..(Len(existing) - 1) :
                toggle(toggle(existing, i), i) = existing)

\* a toggle has just unchecked the entry under the cursor while another
\* entry stays checked
C13_ToggledOff ==
    /\ pc = "menu" /\ lastKey = "toggle"
    /\ ~existing[idx + 1].Checked
    /\ CheckedIdx # {}

----------------------------------------------------------------------------
(* C14: toggle-all                                                         *)

\* C14: toggle-all unchecks every entry if all entries are checked and checks
\* every entry if none or only some are checked; the cursor stays; afterwards
\* all entries carry the same checked value.
C14_ToggleAllUniform ==
    [][(pc = "menu" /\ lastKey' = "all") =>
         /\ Len(existing') = Len(existing)
         /\ \A j \in 1..Len(existing) :
               /\ SameButChecked(existing'[j], existing[j])
               /\ existing'[j].Checked = (CheckedIdx # 1..Len(existing))
         /\ \A j, k \in 1..Len(existing') : existing'[j].Checked = existing'[k].Checked
         /\ idx' = idx /\ pc' = "menu" /\ fs' = fs]_vars

\* toggle-all has just unchecked all of several entries, the cursor below
\* the first
C14_AllUnchecked ==
    /\ pc = "menu" /\ lastKey = "all"
    /\ Len(existing) > 1 /\ idx > 0
    /\ CheckedIdx = {}

----------------------------------------------------------------------------
(* C15: the menu as it opens, and discovery that finds nothing             *)

\* C15: the menu opens with the cursor on the first entry and every entry
\* unchecked.  If discovery yields no entry the menu is never entered: the
\* keyboard is not opened, no key is processed, runCleanup is not invoked,
\* and handleMenu returns after the nothing-found notice.
C15_MenuOpensOrNothingFound ==
    /\ [][(pc = "openKb" /\ pc' = "menu") =>
             /\ idx' = 0 /\ Len(existing') > 0
             /\ \A j \in 1..Len(existing') : ~existing'[j].Checked]_vars
    /\ [](pc = "menu" /\ lastKey = "none" => idx = 0 /\ CheckedIdx = {})
    /\ [](Len(existing) = 0 =>
             /\ pc \in {"main", "scan", "scanStop", "scanAck", "nothing", "exited"}
             /\ ~kbOpen /\ invocations = 0 /\ calls = <<>>
             /\ lastKey \in {"none", "signal"}
             /\ (pc = "exited" /\ lastKey = "none" /\ ~Flagversion /\ args = "ok" =>
                    exitCode = 0 /\ out = <<NothingFoundNotice>>))
    /\ [](NothingFoundNotice \in {out[i] : i \in 1..Len(out)} =>
             pc \in {"nothing", "exited"} /\ Len(existing) = 0)

\* discovery found nothing on a system without caches, the notice was
\* printed and the program returned
C15_ReturnedAfterNotice ==
    /\ pc = "exited" /\ exitCode = 0 /\ lastKey = "none" /\ ~Flagversion /\ args = "ok"
    /\ Len(existing) = 0 /\ out = <<NothingFoundNotice>>
    /\ ~kbOpen /\ invocations = 0

----------------------------------------------------------------------------
(* C16: discovery                                                          *)

\* the positions at which discovery has filled the menu's entries and
\* nothing was cleaned since
Scanned == {"scanStop", "scanAck", "nothing", "openKb", "menu"}

\* pattern j of catalog entry c matches at least one path existing in f
PatternHits(f, c, j) == Len(Glob(f, expandHome(getPrograms[c].Paths[j]))) > 0

\* the positions of catalog entry c among the entries e
Positions(e, c) == {k \in 1..Len(e) : e[k].Name = getPrograms[c].Name}

\* the entries e are the catalog filtered by the matches in f
Filtered(e, f) ==
    /\ \A c \in 1..Len(getPrograms) :
          /\ Cardinality(Positions(e, c)) =
               (IF \E j \in 1..Len(getPrograms[c].Paths) : PatternHits(f, c, j)
                THEN 1 ELSE 0)
          /\ \A k \in Positions(e, c) : e[k].Paths = getPrograms[c].Paths
    /\ \A k \in 1..Len(e) : \E c \in 1..Len(getPrograms) : k \in Positions(e, c)
    /\ \A c, d \in 1..Len(getPrograms) :
          \A k \in Positions(e, c), l \in Positions(e, d) : c < d => k < l

\* C16: discovery puts a catalog entry into the menu, exactly once, if and
\* only if at least one of its patterns matches at least one existing path,
\* and leaves it out otherwise; the menu keeps the catalog's order.  Up to
\* the commit the menu keeps these entries, the checked flags apart.
C16_DiscoveryFiltersCatalog ==
    [][/\ (pc = "scan" /\ pc' = "scanStop") => Filtered(existing', fs')
       /\ (pc \in Scanned /\ pc' \in Scanned) =>
             /\ fs' = fs
             /\ Len(existing') = Len(existing)
             /\ \A k \in 1..Len(existing) : SameButChecked(existing'[k], existing[k])]_vars

\* the menu shows some entries of the catalog and not all of them, among
\* them one that has a pattern with a match and a pattern without
C16_SomeEntriesDiscovered ==
    /\ pc = "menu" /\ lastKey = "none"
    /\ Len(existing) > 0 /\ Len(existing) < Len(getPrograms)
    /\ \E c \in 1..Len(getPrograms) :
          /\ Positions(existing, c) # {}
          /\ \E i, j \in 1..Len(getPrograms[c].Paths) :
                PatternHits(fs, c, i) /\ ~PatternHits(fs, c, j)

----------------------------------------------------------------------------
(* C17, C18: the depth of a path                                           *)

\* the number of path segments of q below the filesystem root (the volume
\* name of a Windows path is not a segment)
Segments(q) ==
    LET v == volumeNameLen(goos, q)
    IN Cardinality({i \in (v + 1)..Len(q) :
                       /\ ~IsPathSeparator(goos, q[i])
                       /\ (i = v + 1 \/ IsPathSeparator(goos, q[i - 1]))})

\* the cleaned input
Cleaned == Clean(goos, path)

\* the cleaned input is an entry of the platform's denylist
OnDenylist == ToLower(Cleaned) \in Denylist(goos)

\* C17: isSafePath returns Protected for every cleaned path with fewer than 3
\* path segments below the filesystem root (for example /tmp, /var, /opt/x),
\* whether or not the path is on the denylist.
C17_ShallowProtected ==
    (verdict # "none" /\ Segments(Cleaned) < MinDepth) => verdict = "Protected"

\* what holds of the depth heuristic: release 2.2 on a Unix-like platform
\* returns Protected for every path with fewer than 3 segments
C17_ShallowProtectedByDepthRule ==
    (verdict # "none" /\ Segments(Cleaned) < MinDepth
       /\ CC_VERSION = "2.2" /\ goos # "windows") => verdict = "Protected"

\* release 2.3 was asked about a spelling of /tmp and answered Safe
C17_TmpSafe ==
    /\ verdict = "Safe" /\ CC_VERSION = "2.3"
    /\ Cleaned = pTmp /\ path # pTmp

\* the cleaned input is the Windows profile directory
IsProfile == goos = "windows" /\ ToLower(Cleaned) = ToLower(USERPROFILE)

\* C18 as stated: isSafePath returns Safe for every path that has at least 3
\* path segments and is not an exact denylist entry.
C18_DeepSafe ==
    (verdict # "none" /\ Segments(Cleaned) >= MinDepth /\ ~OnDenylist) =>
        verdict = "Safe"

\* C18, amended: isSafePath returns Safe for every path that has at least 3
\* path segments, is not an exact denylist entry and, on Windows, is not the
\* profile directory named by USERPROFILE.
C18_DeepSafeButProfile ==
    (verdict # "none" /\ Segments(Cleaned) >= MinDepth /\ ~OnDenylist /\ ~IsProfile) =>
        verdict = "Safe"

\* release 2.2 answered Safe for a respelled directory three segments below
\* the root, right below the home directory
C18_HomeSubdirSafe ==
    /\ verdict = "Safe" /\ CC_VERSION = "2.2"
    /\ Segments(Cleaned) = MinDepth /\ path # Cleaned
    /\ Cleaned = HomeSubdir(goos, home)

----------------------------------------------------------------------------
(* C19: the exit status                                                    *)

\* the process ends in this step
Exits == pc # "exited" /\ pc' = "exited"

\* the ways of ending that the program counts as normal: the commit finished
\* and was acknowledged, nothing was found, an interrupt, a key-source error,
\* the version query
EndsNormally ==
    \/ pc \in {"waitEnter", "nothing"}
    \/ lastKey' \in Interrupts \cup {"err"}
    \/ pc = "main" /\ Flagversion /\ args = "ok"

\* C19 as stated: the exit status is 0 on normal completion and on the
\* version query; it is non-zero only when raw keyboard mode cannot be
\* enabled, and then no cleanup is performed.
C19_NonZeroOnlyKeyboard ==
    [][Exits =>
         /\ exitCode' >= 0
         /\ EndsNormally => exitCode' = 0
         /\ exitCode' # 0 =>
               /\ pc = "openKb"
               /\ invocations' = 0 /\ calls' = <<>> /\ fs' = fs]_vars

\* C19, amended: the exit status is 0 on normal completion and on the
\* version query; it is non-zero only when raw keyboard mode cannot be
\* enabled or the command line cannot be parsed, and then no cleanup is
\* performed.
C19_NonZeroOnlyStartup ==
    [][Exits =>
         /\ exitCode' >= 0
         /\ EndsNormally => exitCode' = 0
         /\ exitCode' # 0 =>
               /\ pc = "openKb" \/ (pc = "main" /\ args = "bad")
               /\ invocations' = 0 /\ calls' = <<>> /\ fs' = fs]_vars

\* keyboard.Open failed on a system with caches: the process ended with a
\* non-zero status before any menu
C19_KeyboardFailed ==
    /\ pc = "exited" /\ exitCode # 0 /\ args = "ok"
    /\ Len(existing) > 0 /\ ~kbOpen
    /\ invocations = 0 /\ calls = <<>>

----------------------------------------------------------------------------
(* C20: the home directory cannot be determined                            *)

\* the catalog entries that have a pattern built from the home directory
HomeRelative == {"Opera Cache"}

\* the process ended by itself: not by a signal, the help text or the
\* version query
EndedByItself ==
    /\ pc = "exited" /\ lastKey # "signal"
    /\ args # "help" /\ ~(args = "ok" /\ Flagversion)

\* C20: if the home directory cannot be determined the failure is fatal: the
\* process exits with a non-zero status without opening the menu and without
\* a discovery match or a deletion that comes from a home-relative pattern.
C20_NoHomeIsFatal ==
    home = <<>> =>
      /\ pc # "menu" /\ ~kbOpen /\ invocations = 0
      /\ \A k \in 1..Len(existing) : existing[k].Name \notin HomeRelative
      /\ \A i \in 1..Len(calls) : existing[calls[i].prog].Name \notin HomeRelative
      /\ EndedByItself => exitCode # 0

\* what the program does instead: without a home directory a pattern of the
\* Opera entry was taken from the working directory and a file below it was
\* removed, and the process ended with status 0
C20_RemovedBelowWorkingDirectory ==
    /\ home = <<>> /\ pc = "exited" /\ exitCode = 0
    /\ \E i \in 1..Len(calls) :
          /\ calls[i].ok /\ calls[i].target[1] # "/"
          /\ IsUnder(Resolve(calls[i].target), cwd)
          /\ Resolve(calls[i].target) \in fs0 \ fs

----------------------------------------------------------------------------
(* C21: patterns built from an empty home directory                        *)

\* the patterns of the catalog that are built from the home directory
HomePatterns ==
    UNION {{getPrograms[c].Paths[j] : j \in 1..Len(getPrograms[c].Paths)} :
             c \in {d \in 1..Len(getPrograms) : getPrograms[d].Name \in HomeRelative}}

\* C21: a catalog pattern built from an unset environment variable or an
\* empty home directory resolves to zero matches at discovery and at cleanup:
\* no path is discovered, sized or removed for it, whatever exists in the
\* working directory.
C21_EmptyHomeMatchesNothing ==
    home = <<>> =>
      /\ pc = "scan" => \A pat \in HomePatterns : Glob(fs, expandHome(pat)) = <<>>
      /\ \A k \in 1..Len(existing) :
            existing[k].Name \in HomeRelative => FALSE
      /\ \A i \in 1..Len(seen) : existing[seen[i].prog].Name \notin HomeRelative

\* what the program does instead: the pattern ".cache/opera/Cache", left
\* without its home directory, matched below the working directory, was sized
\* at discovery and resolved again by the cleanup pass
C21_RelativePatternResolved ==
    /\ home = <<>>
    /\ \E k \in 1..Len(existing) :
          /\ existing[k].Name \in HomeRelative /\ existing[k].Size > 0
          /\ \E i \in 1..Len(seen) : seen[i].prog = k /\ seen[i].m = relOperaCache

----------------------------------------------------------------------------
(* C22: the keyboard is released                                           *)

\* C22: on every path by which the process exits after raw keyboard mode was
\* enabled (commit completed, Ctrl+C key, termination signal, key-source
\* error) keyboard.Close is called before the process terminates: no process
\* ends holding the raw mode.
C22_KeyboardReleased ==
    /\ [][(kbOpen /\ Exits) => ~kbOpen']_vars
    /\ [](pc = "exited" => ~kbOpen)
    /\ [](kbOpen => pc \in {"menu", "pass", "passStop", "passAck", "report"})

\* a termination signal ended the process in the middle of a cleanup pass,
\* while raw keyboard mode was held, and the mode was released
C22_SignalledDuringPass ==
    /\ pc = "exited" /\ lastKey = "signal" /\ ~kbOpen
    /\ invocations = 1 /\ Len(hist) < run
    /\ seen # <<>>

----------------------------------------------------------------------------
(* C23, C24, C25: the stop/acknowledge handshake of the spinner            *)

\* main is at "stop <- true"
StopPcs == {"scanStop", "passStop"}

\* main has sent stop and is at "<-ack"
AckPcs == {"scanAck", "passAck"}

\* C23: after main has sent stop it writes nothing to the terminal until it
\* has received the acknowledgment, and the spinner writes nothing after it
\* has sent the acknowledgment; so in the discovery handshake and in the
\* cleanup handshake.
C23_StopThenAckThenOutput ==
    /\ [](pc \in StopPcs => spin = "spinning")
    /\ [](pc \in AckPcs => spin = "stopping")
    /\ [][/\ (pc \in AckPcs /\ pc' \in AckPcs) => wrote' # "main" /\ out' = out
          /\ (pc \in StopPcs /\ pc' \in AckPcs) => wrote' # "main" /\ out' = out
          /\ wrote' = "main" => spin' # "stopping"
          /\ wrote' = "spinner" => spin = "spinning"
          /\ (pc \in AckPcs /\ pc' \notin AckPcs /\ pc' # "exited") => spin' = "none"]_vars

\* the cleanup handshake is over: the spinner has acknowledged and returned,
\* and main has printed the finished line after it
C23_FinishedAfterAck ==
    /\ pc = "waitEnter" /\ spin = "none" /\ wrote = "main"
    /\ \E i \in 1..Len(out) : out[i].k = "finished"

\* C24: between the start of a spinner goroutine and the receipt of its
\* acknowledgment the main thread performs no terminal write, so the output
\* of main and of the spinner never interleave, the per-path log lines of a
\* cleanup pass included.
C24_NoWriteWhileSpinning ==
    [][(spin = "spinning" /\ spin' = "spinning") => wrote' # "main"]_vars

\* what holds of it: during discovery main writes nothing while the spinner
\* runs
C24_DiscoveryNotInterleaved ==
    [][(spin = "spinning" /\ pc \in {"scan", "scanStop"}) => wrote' # "main"]_vars

\* what the program does instead: in a cleanup pass the spinner drew a frame
\* after main had logged a line, and the pass goes on logging
C24_FrameAfterLogLine ==
    /\ pc = "pass" /\ spin = "spinning" /\ wrote = "spinner"
    /\ out # <<>>

\* C25: the handshake never blocks forever: whenever main is at the send on
\* stop, the spinner eventually receives it, sends the acknowledgment and
\* returns, and main continues past the receive on ack (or the process
\* exits); in no reachable state are main and the spinner both blocked on
\* the channels.
C25_HandshakeCompletes ==
    /\ [](pc \in StopPcs => spin = "spinning")
    /\ [](pc \in AckPcs => spin = "stopping")
    /\ [](spin = "stopping" => pc \in AckPcs)
    /\ (pc \in StopPcs) ~> (pc \notin StopPcs \cup AckPcs /\ spin = "none")

\* main is past the cleanup handshake, without a signal: the spinner has
\* returned and the report was printed
C25_PastCleanupHandshake ==
    /\ pc = "exited" /\ lastKey = "commit" /\ spin = "none"
    /\ invocations = 1 /\ Len(hist) = run
    /\ \E i \in 1..Len(out) : out[i].k = "finished"

----------------------------------------------------------------------------
(* C26: one line for every skip and every failure                          *)

\* the lines of the pass that name resolved path m
LinesAbout(m) == {k \in DOMAIN out : out[k].k \in {"unsafe", "nofile", "nodir"} /\ out[k].p = m}

\* C26: every resolved path the pass skipped (the validator rejected it, it
\* could not be examined because it had vanished, its directory could not be
\* read) or failed to delete has exactly one line that names it
C26_OneLinePerSkip ==
    /\ \A i \in DOMAIN seen :
           seen[i].verdict \in {"unsafe", "gone", "unreadable"}
               => Cardinality(LinesAbout(seen[i].m)) = 1
    /\ \A i \in DOMAIN calls :
           (calls[i].op = "Remove" /\ ~calls[i].ok)
               => Cardinality(LinesAbout(calls[i].target)) = 1

----------------------------------------------------------------------------
(* C27: the pass works on the matches of its own time                      *)

\* the paths of filesystem f that pattern pat matches ('*' stops at a separator)
MatchingPaths(f, pat) == {x \in f : Match(pat, x)}

\* the elements of a sequence
Elements(q) == {q[k] : k \in DOMAIN q}

\* the step of the pass that resolves a pattern
Resolves == pc = "pass" /\ cur.phase = "pattern" /\ cur'.phase = "match"

\* the step of the pass that handles the next resolved path
Handles == pc = "pass" /\ cur.phase = "match" /\ cur.matches # <<>> /\ cur' # cur

\* C27: the pass resolves each pattern of a checked entry on the filesystem
\* as it is at that moment, whatever it was at discovery, and handles every
\* path so resolved, so a path that appeared after discovery is processed; a
\* resolved path that has disappeared is recorded as gone and the pass goes
\* on with the remaining matches; a pass that has left its loop has visited
\* every checked entry, and after a commit the exit status is never non-zero.
C27_MatchesOfCleanupTime ==
    /\ [][Resolves =>
             Elements(cur'.matches)
                 = MatchingPaths(fs, expandHome(existing[cur.pi].Paths[cur.pj]))]_vars
    /\ [][Handles =>
             /\ Len(seen') = Len(seen) + 1
             /\ seen'[Len(seen')].m = Head(cur.matches)
             /\ (~Flagdryrun /\ Head(cur.matches) \notin fs
                    => seen'[Len(seen')].verdict \in {"gone", "unsafe"} /\ fs' = fs)
             /\ cur'.matches = Tail(cur.matches)
             /\ pc' = "pass"]_vars
    /\ [](PassEnded => Elements(visited) = CheckedIdx /\ count = Cardinality(CheckedIdx))
    /\ [](invocations = 1 => exitCode \in {-1, 0})

\* a pass ended that removed /var/log/b.log, a file another process created
\* after discovery
C27_LateFileProcessed ==
    /\ PassEnded /\ ~Flagdryrun /\ ext = 1
    /\ \E i \in DOMAIN seen : seen[i].m = pLateLog /\ seen[i].verdict = "file"
    /\ pLateLog \notin fs

----------------------------------------------------------------------------
(* C28: the contents of a Protected directory                              *)

\* the Protected directories of the host: the root, the denylist, the home
\* directory
ProtectedDirs == {pRoot, home} \cup unixBlacklist

\* C28: no step of the program removes an entry of a Protected directory,
\* also when the path the validator accepted is a symbolic link to one
C28_ProtectedContentsKept ==
    [][\A x \in fs \ fs' : \A d \in ProtectedDirs : ~IsChildOf(x, d)]_vars

----------------------------------------------------------------------------
(* C29: the "Cleaned" lines                                                *)

\* the entries named by the "Cleaned" lines logged so far, in the order logged
CleanedNames ==
    LET ls == SelectSeq(out, LAMBDA l : l.k = "cleaned") IN [i \in DOMAIN ls |-> ls[i].entry]

\* the names of the checked entries, in entry order
RECURSIVE CheckedFrom(_)
CheckedFrom(i) ==
    IF i > Len(existing) THEN <<>>
    ELSE (IF existing[i].Checked THEN <<existing[i].Name>> ELSE <<>>) \o CheckedFrom(i + 1)

\* the entry of the line "Cleaned <name>" has been logged
CleanedLogged(o, name) == \E k \in DOMAIN o : o[k].k = "cleaned" /\ o[k].entry = name

\* C29: in a pass that is no dry run the "Cleaned <name>" lines logged so far
\* name the first checked entries, each once and in entry order, and once the
\* loop has ended they name every checked entry, whatever happened to its
\* resolved paths; no path is handled and no removal is called for an entry
\* after its line, and when the line is logged every path its patterns match
\* has been handled (if no other process changed the filesystem meanwhile);
\* a dry run logs no such line.
C29_OneCleanedLinePerEntry ==
    /\ [](invocations = 1 /\ pc # "exited" =>
            IF Flagdryrun THEN CleanedNames = <<>>
            ELSE /\ Len(CleanedNames) <= Len(CheckedFrom(1))
                 /\ CleanedNames = SubSeq(CheckedFrom(1), 1, Len(CleanedNames))
                 /\ (PassEnded => CleanedNames = CheckedFrom(1)))
    /\ [][pc = "pass" /\ seen' # seen =>
             ~CleanedLogged(out', existing[seen'[Len(seen')].prog].Name)]_vars
    /\ [][pc = "pass" /\ calls' # calls =>
             ~CleanedLogged(out', existing[calls'[Len(calls')].prog].Name)]_vars
    /\ [][pc = "pass" /\ Len(CleanedNames') > Len(CleanedNames) /\ ext = 0 =>
             \A j \in DOMAIN existing[cur.pi].Paths :
                \A m \in Resolved(fs, cur.pi, j) :
                   \E k \in DOMAIN seen : seen[k].m = m /\ seen[k].prog = cur.pi]_vars

\* a pass that was no dry run ended with all four entries checked: /etc was
\* skipped as unsafe, the log file had vanished before the commit so that the
\* pattern matched nothing, a file of /tmp/x-cache could not be deleted, the
\* Opera cache was emptied
C29_FourOutcomesFourLines ==
    /\ PassEnded /\ ~Flagdryrun /\ CC_VERSION = "2.3"
    /\ Len(existing) = 4 /\ Cardinality(CheckedIdx) = 4
    /\ Len(CleanedNames) = 4
    /\ ext = 1 /\ pAppLog \notin fs0
    /\ \E k \in DOMAIN seen : seen[k].verdict = "unsafe"
    /\ \E k \in DOMAIN calls : ~calls[k].ok
    /\ pOperaCacheDF \notin fs

----------------------------------------------------------------------------
(* C30: a commit with nothing checked                                      *)

\* the lines "Nothing selected to clean." printed so far
NothingSelectedLines == {k \in DOMAIN out : out[k] = Line("nothing", <<>>, <<>>, "")}

\* a commit was issued in this launch while no entry was checked
CommittedNothing == invocations = 1 /\ CheckedIdx = {}

\* C30: after a commit with no entry checked no path is handled, no removal
\* is called and the filesystem stays as it was; the report counts zero
\* entries and prints "Nothing selected to clean." once; the menu is not
\* entered again, and from the prompt the program only goes to exit with
\* status 0.
C30_EmptyCommitReportsAndExits ==
    /\ [](CommittedNothing =>
            /\ seen = <<>> /\ calls = <<>> /\ visited = <<>> /\ count = 0
            /\ fs = fs0
            /\ pc # "menu"
            /\ (pc = "waitEnter" => Cardinality(NothingSelectedLines) = 1)
            /\ (pc = "exited" /\ lastKey = "commit" =>
                    Cardinality(NothingSelectedLines) = 1 /\ exitCode = 0 /\ ~kbOpen))
    /\ [][CommittedNothing /\ pc = "waitEnter" /\ pc' # pc => pc' = "exited" /\ exitCode' = 0]_vars
    /\ [](invocations = 1 /\ pc = "waitEnter" /\ CheckedIdx # {} => NothingSelectedLines = {})

\* the program has exited after the user acknowledged the report of a commit
\* with nothing checked, although entries with existing caches were listed
C30_ExitedAfterEmptyCommit ==
    /\ pc = "exited" /\ lastKey = "commit" /\ exitCode = 0
    /\ CommittedNothing /\ Len(existing) = 4
    /\ NothingSelectedLines # {}
    /\ fs = Present

====
